---------------------------- MODULE Spec2Model ----------------------------
(***************************************************************************)
(* A model of the domain-adaptation functions of                           *)
(* albumentations/augmentations/mixing/domain_adaptation_functional.py.    *)
(*                                                                         *)
(* Two specifications share the module:                                    *)
(*   SpecFourier  fourier_domain_adaptation / low_freq_mutate              *)
(*   SpecAdapt    adapt_pixel_distribution / DomainAdapter / the scalers   *)
(*                                                                         *)
(* Numbers.  TLA+ has integers only.  A real number of the program is a    *)
(* rational <<n, d>> with d > 0 in lowest terms, and the arithmetic is     *)
(* exact: the rounding error of float32/float64 is not modelled, so an     *)
(* equality of the model is an equality "up to floating error" of the      *)
(* program.                                                                *)
(***************************************************************************)
EXTENDS Integers, Sequences, FiniteSets, TLC

VARIABLES
    \* fourier_domain_adaptation(img, target_img, beta)
    src_img,        \* the source image (img)
    trg_img,        \* the target image (target_img)
    beta,           \* the adaptation strength of the last call
    src_in_trg,     \* what the last call returned or raised
    \* adapt_pixel_distribution(img, ref, transform_type, weight)
    adapt_img,      \* the image to adapt (img)
    adapt_ref,      \* the reference image (ref)
    adapt_type,     \* the transform type of the last call
    adapt_weight,   \* the weight of the last call
    adapted,        \* what the last call returned or raised
    \* one DomainAdapter object and the calls made on it
    adapter_run,
    \* one MinMaxScaler or StandardScaler object and the calls made on it
    scaler_run,
    \* apply_histogram(img, reference_image, blend_ratio)
    histogram_run,
    \* two threads calling one DomainAdapter
    concurrent_run,
    \* the TelemetryClient class, its objects, the clock and the calls made
    telemetry_run,
    \* one ComposeInitEvent and what its methods returned
    event_run,
    \* threads inside track_compose_init of the shared TelemetryClient
    racing_run

fourier_vars == <<src_img, trg_img, beta, src_in_trg>>
adapt_vars == <<adapt_img, adapt_ref, adapt_type, adapt_weight, adapted>>

vars == <<src_img, trg_img, beta, src_in_trg,
          adapt_img, adapt_ref, adapt_type, adapt_weight, adapted,
          adapter_run, scaler_run, histogram_run, concurrent_run,
          telemetry_run, event_run, racing_run>>

NoValue == "none"
\* beta before the first call
NoBeta == <<-1, 1>>
\* src_in_trg before the first call
NotCalled == [status |-> "pending", shape |-> NoValue, channels |-> NoValue,
              window |-> NoValue]
\* adapted before the first call
NotAdapted == [status |-> "pending"]

\* The variables of a specification that is not the one running
FourierUnused ==
    /\ src_img = NoValue /\ trg_img = NoValue
    /\ beta = NoBeta /\ src_in_trg = NotCalled
AdaptUnused ==
    /\ adapt_img = NoValue /\ adapt_ref = NoValue
    /\ adapt_type = NoValue /\ adapt_weight = NoBeta
    /\ adapted = NotAdapted

analytics_vars == <<telemetry_run, event_run, racing_run>>
AnalyticsUnused ==
    /\ telemetry_run = NoValue /\ event_run = NoValue
    /\ racing_run = NoValue

-----------------------------------------------------------------------------
(* Bounds of the model                                                     *)

\* Height and width of the images of SpecFourier range over 1..MaxFDim.
MaxFDim == 5
\* Height and width of the images of SpecAdapt range over 1..MaxDim.
MaxDim == 2
\* beta ranges over the grid {k / BetaDen : k \in 0..MaxBetaNum}.
BetaDen == 2
MaxBetaNum == 4

-----------------------------------------------------------------------------
(* Integer and rational helpers                                            *)

Min(a, b) == IF a <= b THEN a ELSE b
Max(a, b) == IF a >= b THEN a ELSE b
Abs(a) == IF a >= 0 THEN a ELSE -a

RECURSIVE Gcd(_, _)
Gcd(a, b) == IF b = 0 THEN a ELSE Gcd(b, a % b)

\* The rational n/d (d # 0) in lowest terms with a positive denominator.
Rat(n, d) ==
    LET g == Gcd(Abs(n), Abs(d))
        s == IF d < 0 THEN -1 ELSE 1
    IN  <<(s * n) \div g, (s * d) \div g>>

RInt(k) == <<k, 1>>
RAdd(x, y) ==
    LET g == Gcd(x[2], y[2])
    IN  Rat(x[1] * (y[2] \div g) + y[1] * (x[2] \div g), (x[2] \div g) * y[2])
RNeg(x) == <<-x[1], x[2]>>
RSub(x, y) == RAdd(x, RNeg(y))
RMul(x, y) ==
    LET a == Rat(x[1], y[2])
        b == Rat(y[1], x[2])
    IN  <<a[1] * b[1], a[2] * b[2]>>
RDiv(x, y) == RMul(x, Rat(y[2], y[1]))
RLe(x, y) == x[1] * y[2] <= y[1] * x[2]
RLt(x, y) == x[1] * y[2] < y[1] * x[2]
RMin(x, y) == IF RLe(x, y) THEN x ELSE y
RMax(x, y) == IF RLe(x, y) THEN y ELSE x
\* floor of a rational (\div rounds towards minus infinity)
RFloor(x) == x[1] \div x[2]
\* Python's int(x): truncation towards zero
RTrunc(x) == IF x[1] >= 0 THEN x[1] \div x[2] ELSE -((-x[1]) \div x[2])
\* np.rint(x): the nearest integer, a tie going to the even one
RRint(x) ==
    LET f == RFloor(x)
        twice == RSub(RMul(RInt(2), x), RInt(2 * f))   \* 2 * (x - f), in [0, 2)
    IN  IF RLt(twice, RInt(1)) THEN f
        ELSE IF RLt(RInt(1), twice) THEN f + 1
        ELSE IF f % 2 = 0 THEN f ELSE f + 1

\* floor of the square root of n >= 0, by bisection on lo <= sqrt(n) < hi
RECURSIVE ISqrtIn(_, _, _)
ISqrtIn(n, lo, hi) ==
    IF hi - lo <= 1 THEN lo
    ELSE LET mid == (lo + hi) \div 2
         IN  IF mid * mid <= n THEN ISqrtIn(n, mid, hi) ELSE ISqrtIn(n, lo, mid)
ISqrt(n) == IF n < 2 THEN n ELSE ISqrtIn(n, 1, Min(n, 46341))
IsSquare(n) == n >= 0 /\ ISqrt(n) * ISqrt(n) = n
\* whether the square root of a rational is rational
RIsSquare(x) == IsSquare(x[1]) /\ IsSquare(x[2])
\* np.sqrt(x) of a rational square
RSqrt(x) == <<ISqrt(x[1]), ISqrt(x[2])>>

RECURSIVE RSum(_)
RSum(xs) == IF xs = <<>> THEN RInt(0) ELSE RAdd(xs[1], RSum(Tail(xs)))
RECURSIVE RMinOf(_)
RMinOf(xs) == IF Len(xs) = 1 THEN xs[1] ELSE RMin(xs[1], RMinOf(Tail(xs)))
RECURSIVE RMaxOf(_)
RMaxOf(xs) == IF Len(xs) = 1 THEN xs[1] ELSE RMax(xs[1], RMaxOf(Tail(xs)))
RECURSIVE Product(_)
Product(ns) == IF ns = <<>> THEN 1 ELSE ns[1] * Product(Tail(ns))

-----------------------------------------------------------------------------
(* Images of the Fourier path.                                             *)
(*                                                                         *)
(* np.fft.fft2 / fftshift / ifftshift / ifft2 are external primitives and  *)
(* mutually inverse bijections between a channel and its centred spectrum. *)
(* A channel is therefore represented by its centred spectrum: an          *)
(* amplitude array and a phase.  The amplitude array of channel ch of the  *)
(* image with seed s holds s*1000 + ch*100 + r*10 + c at row r, column c,  *)
(* so two images with different seeds differ at every entry, and the phase *)
(* is named by the pair <<seed, ch>>.  The source has seed 1; the target   *)
(* is the source itself or an image with seed 2.                           *)

\* shapes: <<H, W>> (2-D grayscale) or <<H, W, C>>
FChannelCounts == {1, 2}
FShapes ==
    {<<h, w>> : h \in 1..MaxFDim, w \in 1..MaxFDim}
    \cup {<<h, w, c>> : h \in 1..MaxFDim, w \in 1..MaxFDim, c \in FChannelCounts}

Betas == {Rat(k, BetaDen) : k \in 0..MaxBetaNum}

\* MONO_CHANNEL_DIMENSIONS: the ndim of a grayscale image
MONO_CHANNEL_DIMENSIONS == 2
\* NUM_MULTI_CHANNEL_DIMENSIONS: the ndim of an image with a channel axis
NUM_MULTI_CHANNEL_DIMENSIONS == 3

\* np.expand_dims(x, axis=-1) on a 2-D image, nothing on a 3-D one (lines 509-512)
ExpandDims(shape) ==
    IF Len(shape) = MONO_CHANNEL_DIMENSIONS THEN shape \o <<1>> ELSE shape

\* np.abs(np.fft.fftshift(np.fft.fft2(image[:, :, ch]))): an H x W array
Amplitude(image, ch) ==
    LET sh == ExpandDims(image.shape)
    IN  [h |-> sh[1], w |-> sh[2],
         a |-> [rc \in (0..(sh[1] - 1)) \X (0..(sh[2] - 1)) |->
                    image.seed * 1000 + ch * 100 + rc[1] * 10 + rc[2]]]

\* np.angle(np.fft.fftshift(np.fft.fft2(image[:, :, ch])))
Phase(image, ch) == <<image.seed, ch>>


-----------------------------------------------------------------------------
(* low_freq_mutate (lines 437-449)                                         *)

\* fgeometric.center(image_shape): the centre of the pixel grid,
\* (width / 2 - 0.5, height / 2 - 0.5), as <<center_x, center_y>>.
Center(image_shape) ==
    <<RSub(Rat(image_shape[2], 2), Rat(1, 2)),
      RSub(Rat(image_shape[1], 2), Rat(1, 2))>>

\* Mutant of Border: the longer side instead of the shorter one.
Border_OfLongerSide(image_shape, b) ==
    RFloor(RMul(RInt(Max(image_shape[1], image_shape[2])), b))

\* border = int(np.floor(min(image_shape) * beta))              (line 440)
Border(image_shape, b) ==
    RFloor(RMul(RInt(Min(image_shape[1], image_shape[2])), b))

\* Mutant of SwapWindow: the lower ends are not clamped to 0.
SwapWindow_Unclamped(image_shape, b) ==
    LET border == Border(image_shape, b)
        center_x == Center(image_shape)[1]
        center_y == Center(image_shape)[2]
    IN  [h1 |-> RTrunc(RSub(center_y, RInt(border))),
         h2 |-> Min(RTrunc(RAdd(center_y, RInt(border))), image_shape[1]),
         w1 |-> RTrunc(RSub(center_x, RInt(border))),
         w2 |-> Min(RTrunc(RAdd(center_x, RInt(border))), image_shape[2])]

\* Mutant of SwapWindow: the upper ends are taken as inclusive.
SwapWindow_InclusiveEnd(image_shape, b) ==
    LET border == Border(image_shape, b)
        center_x == Center(image_shape)[1]
        center_y == Center(image_shape)[2]
    IN  [h1 |-> Max(0, RTrunc(RSub(center_y, RInt(border)))),
         h2 |-> Min(RTrunc(RAdd(center_y, RInt(border))) + 1, image_shape[1]),
         w1 |-> Max(0, RTrunc(RSub(center_x, RInt(border)))),
         w2 |-> Min(RTrunc(RAdd(center_x, RInt(border))) + 1, image_shape[2])]

\* h1, h2 = max(0, int(center_y - border)), min(int(center_y + border), height)
\* w1, w2 = max(0, int(center_x - border)), min(int(center_x + border), width)
\* The swap window is rows h1..h2-1, columns w1..w2-1.     (lines 442-447)
SwapWindow(image_shape, b) ==
    LET border == Border(image_shape, b)
        center_x == Center(image_shape)[1]
        center_y == Center(image_shape)[2]
        height == image_shape[1]
        width == image_shape[2]
    IN  [h1 |-> Max(0, RTrunc(RSub(center_y, RInt(border)))),
         h2 |-> Min(RTrunc(RAdd(center_y, RInt(border))), height),
         w1 |-> Max(0, RTrunc(RSub(center_x, RInt(border)))),
         w2 |-> Min(RTrunc(RAdd(center_x, RInt(border))), width)]

\* The index set a window selects.
WindowCells(win) == (win.h1 .. (win.h2 - 1)) \X (win.w1 .. (win.w2 - 1))

\* x[lo:hi] on an axis of length n: numpy clamps both ends of the slice to
\* the axis; the result is <<first index, length>>.
SliceOf(lo, hi, n) ==
    LET a == Min(lo, n)
        z == Min(hi, n)
    IN  <<a, Max(0, z - a)>>

\* numpy broadcasting of a value axis of length t onto a destination axis of
\* length s: the lengths agree, or the value axis has length 1.
Broadcasts(t, s) == t = s \/ t = 1

\* Mutant of SliceAssign: the target is read from its top-left corner,
\* amp_src[h1:h2, w1:w2] = amp_trg[:h2 - h1, :w2 - w1].
SliceAssign_FromCorner(amp_src, amp_trg, win) ==
    LET sr == SliceOf(win.h1, win.h2, amp_src.h)
        sc == SliceOf(win.w1, win.w2, amp_src.w)
        tr == SliceOf(0, win.h2 - win.h1, amp_trg.h)
        tc == SliceOf(0, win.w2 - win.w1, amp_trg.w)
        ok == Broadcasts(tr[2], sr[2]) /\ Broadcasts(tc[2], sc[2])
        FromRow(r) == IF tr[2] = 1 THEN tr[1] ELSE tr[1] + (r - sr[1])
        FromCol(c) == IF tc[2] = 1 THEN tc[1] ELSE tc[1] + (c - sc[1])
        inside(rc) == /\ sr[1] <= rc[1] /\ rc[1] < sr[1] + sr[2]
                      /\ sc[1] <= rc[2] /\ rc[2] < sc[1] + sc[2]
    IN  IF ~ok
        THEN [err |-> "ValueError", amp |-> NoValue]
        ELSE [err |-> NoValue,
              amp |-> [amp_src EXCEPT !.a =
                         [rc \in DOMAIN amp_src.a |->
                            IF inside(rc)
                            THEN amp_trg.a[<<FromRow(rc[1]), FromCol(rc[2])>>]
                            ELSE amp_src.a[rc]]]]

\* amp_src[h1:h2, w1:w2] = amp_trg[h1:h2, w1:w2]; return amp_src (lines 448-449)
\* The result is [err, amp]: numpy raises ValueError when the target slice
\* does not broadcast to the source slice, and then nothing is returned.
SliceAssign(amp_src, amp_trg, win) ==
    LET sr == SliceOf(win.h1, win.h2, amp_src.h)
        sc == SliceOf(win.w1, win.w2, amp_src.w)
        tr == SliceOf(win.h1, win.h2, amp_trg.h)
        tc == SliceOf(win.w1, win.w2, amp_trg.w)
        ok == Broadcasts(tr[2], sr[2]) /\ Broadcasts(tc[2], sc[2])
        FromRow(r) == IF tr[2] = 1 THEN tr[1] ELSE tr[1] + (r - sr[1])
        FromCol(c) == IF tc[2] = 1 THEN tc[1] ELSE tc[1] + (c - sc[1])
        inside(rc) == /\ sr[1] <= rc[1] /\ rc[1] < sr[1] + sr[2]
                      /\ sc[1] <= rc[2] /\ rc[2] < sc[1] + sc[2]
    IN  IF ~ok
        THEN [err |-> "ValueError", amp |-> NoValue]
        ELSE [err |-> NoValue,
              amp |-> [amp_src EXCEPT !.a =
                         [rc \in DOMAIN amp_src.a |->
                            IF inside(rc)
                            THEN amp_trg.a[<<FromRow(rc[1]), FromCol(rc[2])>>]
                            ELSE amp_src.a[rc]]]]

low_freq_mutate(amp_src, amp_trg, b) ==
    LET image_shape == <<amp_src.h, amp_src.w>>
        win == SwapWindow(image_shape, b)
        res == SliceAssign(amp_src, amp_trg, win)
    IN  [err |-> res.err, amp |-> res.amp, window |-> win]

-----------------------------------------------------------------------------
(* fourier_domain_adaptation (lines 452-544)                               *)

\* The loop of lines 519-542 from channel_id on, `done` holding the channels
\* already stored.  trg_img[:, :, channel_id] raises IndexError when the
\* target has no such channel; low_freq_mutate may raise ValueError.  An
\* output channel is the mutated amplitude recombined with the source phase.
RECURSIVE ChannelLoop(_, _, _, _, _)
ChannelLoop(src, trg, b, channel_id, done) ==
    LET num_channels == ExpandDims(src.shape)[3]
        trg_channels == ExpandDims(trg.shape)[3]
        amp_src == Amplitude(src, channel_id)
        pha_src == Phase(src, channel_id)
        mutated == low_freq_mutate(amp_src, Amplitude(trg, channel_id), b)
    IN  IF channel_id >= num_channels
        THEN [status |-> "ok", channels |-> done]
        ELSE IF channel_id >= trg_channels
        THEN [status |-> "IndexError", channels |-> NoValue]
        ELSE IF mutated.err # NoValue
        THEN [status |-> mutated.err, channels |-> NoValue]
        ELSE ChannelLoop(src, trg, b, channel_id + 1,
                         Append(done, [amp |-> mutated.amp, pha |-> pha_src]))

\* @preserve_channel_dim: a 2-D input gets a 2-D result back, a 3-D input a
\* 3-D one, so the result has the shape of img.
PreserveChannelDim(input_shape, result_shape) ==
    IF Len(input_shape) = MONO_CHANNEL_DIMENSIONS
    THEN <<result_shape[1], result_shape[2]>>
    ELSE IF /\ Len(input_shape) = NUM_MULTI_CHANNEL_DIMENSIONS
            /\ input_shape[3] = 1
            /\ Len(result_shape) = MONO_CHANNEL_DIMENSIONS
    THEN Append(result_shape, 1)
    ELSE result_shape

\* The whole call.  `window` is the swap window low_freq_mutate computes for
\* the source's shape (the same for every channel).  The final @clipped is a
\* clip of the spatial samples to the dtype's range and has no counterpart
\* in the spectral representation.
fourier_domain_adaptation(img, target_img, b) ==
    LET loop == ChannelLoop(img, target_img, b, 0, <<>>)
        sh == ExpandDims(img.shape)
    IN  [status |-> loop.status,
         shape |-> IF loop.status = "ok"
                   THEN PreserveChannelDim(img.shape, sh) ELSE NoValue,
         channels |-> loop.channels,
         window |-> SwapWindow(<<sh[1], sh[2]>>, b)]

\* the centred spectrum of an image, channel by channel
Spectrum(image) ==
    [i \in 1..ExpandDims(image.shape)[3] |->
        [amp |-> Amplitude(image, i - 1), pha |-> Phase(image, i - 1)]]

\* The targets tried against a source: the source itself, and the images
\* with seed 2 of every layout whose height and width are each within one
\* of the source's (equal, one smaller, one larger).
TargetsOf(src) ==
    {src} \cup
    {t \in [shape : FShapes, seed : {2}] :
        /\ Abs(t.shape[1] - src.shape[1]) <= 1
        /\ Abs(t.shape[2] - src.shape[2]) <= 1}

InitFourier ==
    /\ src_img \in [shape : FShapes, seed : {1}]
    /\ trg_img \in TargetsOf(src_img)
    /\ beta = NoBeta
    /\ src_in_trg = NotCalled
    /\ AdaptUnused
    /\ adapter_run = NoValue /\ scaler_run = NoValue
    /\ histogram_run = NoValue /\ concurrent_run = NoValue
    /\ AnalyticsUnused

\* One call fourier_domain_adaptation(src_img, trg_img, b).
FourierDomainAdaptation ==
    \E b \in Betas :
        /\ beta' = b
        /\ src_in_trg' = fourier_domain_adaptation(src_img, trg_img, b)
        /\ UNCHANGED <<src_img, trg_img>>
        /\ UNCHANGED adapt_vars
        /\ UNCHANGED <<adapter_run, scaler_run, histogram_run, concurrent_run,
                    analytics_vars>>

NextFourier == FourierDomainAdaptation

SpecFourier == InitFourier /\ [][NextFourier]_vars

-----------------------------------------------------------------------------
(* Properties of the Fourier path, checked under SpecFourier               *)

Called == src_in_trg.status # "pending"
SrcHW == <<src_img.shape[1], src_img.shape[2]>>
FullWindow == [h1 |-> 0, h2 |-> SrcHW[1], w1 |-> 0, w2 |-> SrcHW[2]]
WindowInBounds(win) ==
    /\ 0 <= win.h1 /\ win.h1 <= SrcHW[1]
    /\ 0 <= win.h2 /\ win.h2 <= SrcHW[1]
    /\ 0 <= win.w1 /\ win.w1 <= SrcHW[2]
    /\ 0 <= win.w2 /\ win.w2 <= SrcHW[2]

\* C4 (as claimed): whenever the source and target shapes differ, the call
\* raises ValueError, for every beta, and returns no result.
C4_MismatchRaisesValueError ==
    (Called /\ src_img.shape # trg_img.shape)
        => src_in_trg.status = "ValueError"

\* C7 (as claimed): for every beta >= 0.5 the swap window covers the whole
\* spectrum, rows [0, H) and columns [0, W).
C7_HalfBetaCoversAll ==
    (Called /\ RLe(Rat(1, 2), beta)) => src_in_trg.window = FullWindow

\* C7 (amended): the swap window covers the whole spectrum exactly when the
\* border b = floor(min(H, W) * beta) satisfies 2b >= max(H, W) + 1.
C7_CoversAllIffBorderLarge ==
    Called =>
        LET b == (Min(SrcHW[1], SrcHW[2]) * beta[1]) \div beta[2]
        IN  (src_in_trg.window = FullWindow)
                <=> (2 * b >= Max(SrcHW[1], SrcHW[2]) + 1)

C7_Witness ==
    /\ Called
    /\ src_in_trg.window = FullWindow
    /\ SrcHW[1] # SrcHW[2]
    /\ SrcHW[1] > 1 /\ SrcHW[2] > 1

\* C8: the swap window grows monotonically with beta: of two consecutive
\* calls on the same image with beta <= beta', the cells swapped by the
\* first are among those swapped by the second; and every window lies
\* within the image bounds.
C8_WindowMonotoneInBeta ==
    [][ /\ WindowInBounds(src_in_trg'.window)
        /\ (Called /\ RLe(beta, beta'))
              => WindowCells(src_in_trg.window)
                    \subseteq WindowCells(src_in_trg'.window) ]_vars

C8_Witness ==
    /\ Called
    /\ WindowCells(src_in_trg.window) # {}
    /\ src_in_trg.window # FullWindow
    /\ src_in_trg.window.h1 > 0
    /\ RLt(RInt(0), beta)

\* C9: with beta = 0 the swap window is empty for every image shape:
\* low_freq_mutate raises nothing, and the amplitude of every channel of the
\* result is the source's amplitude at every position.
C9_ZeroBetaLeavesAmplitude ==
    (Called /\ beta = RInt(0)) =>
        /\ WindowCells(src_in_trg.window) = {}
        /\ src_in_trg.status # "ValueError"
        /\ src_in_trg.status = "ok" =>
              \A i \in DOMAIN src_in_trg.channels :
                  src_in_trg.channels[i].amp = Amplitude(src_img, i - 1)

C9_Witness ==
    /\ Called /\ beta = RInt(0)
    /\ src_in_trg.status = "ok"
    /\ trg_img.seed # src_img.seed
    /\ trg_img.shape = src_img.shape
    /\ SrcHW[1] > 1 /\ SrcHW[2] > 1

\* C10: adapting an image against itself leaves every channel's amplitude
\* unchanged for every beta, and the result is the source's amplitude
\* recombined with the source's phase: the image itself.
C10_SelfAdaptationIsIdentity ==
    (Called /\ trg_img = src_img) =>
        /\ src_in_trg.status = "ok"
        /\ src_in_trg.channels = Spectrum(src_img)
        /\ src_in_trg.shape = src_img.shape

C10_Witness ==
    /\ Called /\ trg_img = src_img
    /\ Cardinality(WindowCells(src_in_trg.window)) > 1
    /\ src_in_trg.window.h1 > 0
    /\ src_in_trg.status = "ok"

-----------------------------------------------------------------------------
(* Pixel matrices and the statistical transformers (lines 30-237)          *)
(*                                                                         *)
(* A pixel matrix is a sequence of rows, one per pixel, each a sequence of *)
(* one rational per channel.  None is Python's None.                       *)

\* An assignment of the program, v = e followed by a computation F that
\* uses v, is written Only([v \in {e} |-> F]): the value of the function of
\* one argument, with e computed once.
Only(f) == CHOOSE r \in {g[CHOOSE v \in DOMAIN g : TRUE] : g \in {f}} : TRUE

\* np.ndarray values: a vector and a matrix as sequences whose entries are
\* computed once, when the array is made
Array1(f) == f \o <<>>
Array2(f) == [i \in DOMAIN f |-> Array1(f[i])] \o <<>>

None == <<>>
NoErr == "no error"

Column(x, c) == [i \in 1..Len(x) |-> x[i][c]]
NumFeatures(x) == Len(x[1])
Features(x) == 1..NumFeatures(x)
\* np.mean(x, axis=0)[c], np.var(x, axis=0)[c], and the covariance of two columns
ColMean(x, c) == RDiv(RSum(Column(x, c)), RInt(Len(x)))
ColVar(x, c) ==
    Only([m \in {ColMean(x, c)} |->
        RDiv(RSum([i \in 1..Len(x) |->
                     RMul(RSub(x[i][c], m), RSub(x[i][c], m))]), RInt(Len(x)))])
ColCov(x, c, d) ==
    Only([mc \in {ColMean(x, c)} |-> Only([md \in {ColMean(x, d)} |->
        RDiv(RSum([i \in 1..Len(x) |->
                     RMul(RSub(x[i][c], mc), RSub(x[i][d], md))]), RInt(Len(x)))])])

\* MinMaxScaler.__init__ (lines 99-103), feature_range = (0.0, 1.0)
MinMaxScaler ==
    [kind |-> "minmax", min |-> RInt(0), max |-> RInt(1),
     data_min |-> None, data_max |-> None, data_range |-> None]

\* MinMaxScaler.fit (lines 105-121)
MinMaxScaler_fit(self, x) ==
    Only([data_min \in {Array1([c \in Features(x) |-> RMinOf(Column(x, c))])} |->
    Only([data_max \in {Array1([c \in Features(x) |-> RMaxOf(Column(x, c))])} |->
    Only([data_range \in {Array1([c \in Features(x) |-> RSub(data_max[c], data_min[c])])} |->
        [self EXCEPT
            !.data_min = data_min,
            !.data_max = data_max,
            \* self.data_range[self.data_range == 0] = 1
            !.data_range = Array1([c \in Features(x) |->
                              IF data_range[c] = RInt(0) THEN RInt(1)
                              ELSE data_range[c]])]])])])

\* MinMaxScaler.transform without the test of lines 138-142
MinMaxScaler_transform_Unchecked(self, x) ==
    IF self.data_min = None \/ self.data_max = None \/ self.data_range = None
    THEN [err |-> NoErr, x |-> x]
    ELSE [err |-> NoErr,
          x |-> Array2([i \in 1..Len(x) |-> [c \in Features(x) |->
                   RAdd(RMul(RDiv(RSub(x[i][c], self.data_min[c]),
                                  self.data_range[c]),
                             RSub(self.max, self.min)),
                        self.min)]])]

\* MinMaxScaler.transform (lines 123-149)
MinMaxScaler_transform(self, x) ==
    IF self.data_min = None \/ self.data_max = None \/ self.data_range = None
    THEN [err |-> "ValueError", x |-> None]
    ELSE [err |-> NoErr,
          x |-> Array2([i \in 1..Len(x) |-> [c \in Features(x) |->
                   RAdd(RMul(RDiv(RSub(x[i][c], self.data_min[c]),
                                  self.data_range[c]),
                             RSub(self.max, self.min)),
                        self.min)]])]

\* x_std * self.data_range without + self.data_min
MinMaxScaler_inverse_transform_NoOffset(self, x) ==
    IF self.data_min = None \/ self.data_max = None \/ self.data_range = None
    THEN [err |-> "ValueError", x |-> None]
    ELSE [err |-> NoErr,
          x |-> Array2([i \in 1..Len(x) |-> [c \in Features(x) |->
                   RMul(RDiv(RSub(x[i][c], self.min),
                             RSub(self.max, self.min)),
                        self.data_range[c])]])]

\* MinMaxScaler.inverse_transform (lines 151-170)
MinMaxScaler_inverse_transform(self, x) ==
    IF self.data_min = None \/ self.data_max = None \/ self.data_range = None
    THEN [err |-> "ValueError", x |-> None]
    ELSE [err |-> NoErr,
          x |-> Array2([i \in 1..Len(x) |-> [c \in Features(x) |->
                   RAdd(RMul(RDiv(RSub(x[i][c], self.min),
                                  RSub(self.max, self.min)),
                             self.data_range[c]),
                        self.data_min[c])]])]

\* StandardScaler.__init__ (lines 174-175)
StandardScaler ==
    [kind |-> "standard", mean |-> None, var |-> None, scale |-> None]

\* StandardScaler.fit (lines 177-193); np.sqrt is exact on the inputs of the
\* model, whose variances are squares of rationals (see Representable).
StandardScaler_fit(self, x) ==
    Only([var \in {Array1([c \in Features(x) |-> ColVar(x, c)])} |->
    Only([scale \in {Array1([c \in Features(x) |-> RSqrt(var[c])])} |->
        [self EXCEPT
            !.mean = Array1([c \in Features(x) |-> ColMean(x, c)]),
            !.var = var,
            \* self.scale[self.scale == 0] = 1
            !.scale = Array1([c \in Features(x) |->
                         IF scale[c] = RInt(0) THEN RInt(1) ELSE scale[c]])]])])

\* StandardScaler.transform (lines 195-215)
StandardScaler_transform(self, x) ==
    IF self.mean = None \/ self.scale = None
    THEN [err |-> "ValueError", x |-> None]
    ELSE [err |-> NoErr,
          x |-> Array2([i \in 1..Len(x) |-> [c \in Features(x) |->
                   RDiv(RSub(x[i][c], self.mean[c]), self.scale[c])]])]

\* StandardScaler.inverse_transform (lines 217-237)
StandardScaler_inverse_transform(self, x) ==
    IF self.mean = None \/ self.scale = None
    THEN [err |-> "ValueError", x |-> None]
    ELSE [err |-> NoErr,
          x |-> Array2([i \in 1..Len(x) |-> [c \in Features(x) |->
                   RAdd(RMul(x[i][c], self.scale[c]), self.mean[c])]])]

\* albumentations.augmentations.utils.PCA: the feature-wise mean and an
\* orthogonal basis (components_, one principal axis per row) ordered by
\* decreasing explained variance.  The model holds pixel matrices whose
\* covariance matrix is diagonal with distinct entries (see Representable):
\* the axes are then the coordinate axes, and the decomposition is free to
\* return each of them with either sign: signs[k] is the sign of row k.
PCA == [kind |-> "pca", mean |-> None, components_ |-> None]

PCA_fit(self, x, signs) ==
    Only([n \in {NumFeatures(x)} |->
    Only([order \in {IF n = 1 THEN <<1>>
        ELSE IF RLt(ColVar(x, 2), ColVar(x, 1)) THEN <<1, 2>>
        ELSE <<2, 1>>} |->
        [self EXCEPT
            !.mean = Array1([c \in 1..n |-> ColMean(x, c)]),
            !.components_ = Array2([k \in 1..n |-> [c \in 1..n |->
                               IF c = order[k] THEN signs[k] ELSE 0]])]])])

\* projection of the centred data onto the basis
PCA_transform(self, x) ==
    IF self.mean = None \/ self.components_ = None
    THEN [err |-> "ValueError", x |-> None]
    ELSE [err |-> NoErr,
          x |-> Array2([i \in 1..Len(x) |-> [k \in Features(x) |->
                   RSum([c \in Features(x) |->
                           RMul(RSub(x[i][c], self.mean[c]),
                                RInt(self.components_[k][c]))])]])]

\* reconstruction from basis coordinates, plus the mean
PCA_inverse_transform(self, x) ==
    IF self.mean = None \/ self.components_ = None
    THEN [err |-> "ValueError", x |-> None]
    ELSE [err |-> NoErr,
          x |-> Array2([i \in 1..Len(x) |-> [c \in Features(x) |->
                   RAdd(RSum([k \in Features(x) |->
                                RMul(x[i][k], RInt(self.components_[k][c]))]),
                        self.mean[c])]])]

\* {"pca": PCA, "standard": StandardScaler, "minmax": MinMaxScaler}[t]()  (line 428)
TransformTypes == {"pca", "standard", "minmax"}
NewTransformer(transform_type) ==
    CASE transform_type = "pca" -> PCA
      [] transform_type = "standard" -> StandardScaler
      [] transform_type = "minmax" -> MinMaxScaler

\* transformer.fit / transform / inverse_transform of TransformerInterface
\* (lines 240-280), dispatched on the class of the instance
Fit(self, x, signs) ==
    CASE self.kind = "pca" -> PCA_fit(self, x, signs)
      [] self.kind = "standard" -> StandardScaler_fit(self, x)
      [] self.kind = "minmax" -> MinMaxScaler_fit(self, x)
Transform(self, x) ==
    CASE self.kind = "pca" -> PCA_transform(self, x)
      [] self.kind = "standard" -> StandardScaler_transform(self, x)
      [] self.kind = "minmax" -> MinMaxScaler_transform(self, x)
InverseTransform(self, x) ==
    CASE self.kind = "pca" -> PCA_inverse_transform(self, x)
      [] self.kind = "standard" -> StandardScaler_inverse_transform(self, x)
      [] self.kind = "minmax" -> MinMaxScaler_inverse_transform(self, x)

\* The pixel matrices the exact arithmetic of the model can fit: for
\* standardization the variance of every column is the square of a rational;
\* for PCA there is one column, or two uncorrelated columns of different
\* variance.
Representable(transform_type, x) ==
    CASE transform_type = "minmax" -> TRUE
      [] transform_type = "standard" ->
            \A c \in Features(x) : RIsSquare(ColVar(x, c))
      [] transform_type = "pca" ->
            \/ NumFeatures(x) = 1
            \/ /\ NumFeatures(x) = 2
               /\ ColCov(x, 1, 2) = RInt(0)
               /\ ColVar(x, 1) # ColVar(x, 2)

\* the sign vectors a decomposition of n features may return
SignVectors(n) == [1..n -> {-1, 1}]

-----------------------------------------------------------------------------
(* Images of the pixel-distribution path                                   *)
(*                                                                         *)
(* An image is [shape, dtype, data]: data is the row-major (channel last)  *)
(* sequence of its samples, integers 0..255 for uint8 and rationals in     *)
(* [0, 1] for float32, all held as rationals.                              *)

\* MAX_VALUES_BY_DTYPE[np.uint8], the divisor of to_float and from_float
MaxUint8 == 255

\* albucore.get_num_channels (lines 293, 409-410)
get_num_channels(image) ==
    IF Len(image.shape) = NUM_MULTI_CHANNEL_DIMENSIONS THEN image.shape[3] ELSE 1

\* np.squeeze: every axis of length 1 is removed (lines 416-417)
Squeeze(image) ==
    [image EXCEPT !.shape = SelectSeq(image.shape, LAMBDA n : n # 1)]

\* albucore.to_float(img): a float32 image is returned as it is, a uint8
\* image is divided by 255 (lines 337, 434)
to_float(image) ==
    IF image.dtype = "float32" THEN image
    ELSE [image EXCEPT !.dtype = "float32",
                       !.data = Array1([i \in DOMAIN image.data |->
                                   RDiv(image.data[i], RInt(MaxUint8))])]

\* albucore.clip(img, dtype): np.clip to [0, max value of dtype], then
\* astype(dtype), which truncates a float towards zero for uint8
\* (lines 355, 381, 452)
clip(image, dtype) ==
    IF dtype = "uint8"
    THEN [image EXCEPT !.dtype = "uint8",
             !.data = Array1([i \in DOMAIN image.data |->
                 RInt(RTrunc(RMin(RMax(image.data[i], RInt(0)), RInt(MaxUint8))))])]
    ELSE [image EXCEPT !.dtype = dtype,
             !.data = Array1([i \in DOMAIN image.data |->
                 RMin(RMax(image.data[i], RInt(0)), RInt(1))])]

\* albucore.from_float(img, np.uint8): np.rint(img * 255), clipped (lines 425-426)
from_float(image) ==
    [image EXCEPT !.dtype = "uint8",
        !.data = Array1([i \in DOMAIN image.data |->
            RInt(Min(Max(RRint(RMul(image.data[i], RInt(MaxUint8))), 0), MaxUint8))])]

\* cv2.resize(src, dsize=(width, height), interpolation=cv2.INTER_AREA): the
\* result has dsize[2] rows and dsize[1] columns and the channels of src.
\* The interpolation is an external primitive; the model samples the nearest
\* source pixel.  An array of fewer than two axes is read as a column.
cv2_resize(src, dsize) ==
    LET sh == src.shape
        in_h == IF Len(sh) >= 1 THEN sh[1] ELSE 1
        in_w == IF Len(sh) >= 2 THEN sh[2] ELSE 1
        ch == IF Len(sh) = 3 THEN sh[3] ELSE 1
        out_w == dsize[1]
        out_h == dsize[2]
        At(r, c, k) == src.data[((r * in_w) + c) * ch + k + 1]
    IN  [shape |-> IF Len(sh) = 3 THEN <<out_h, out_w, ch>> ELSE <<out_h, out_w>>,
         dtype |-> src.dtype,
         data |-> Array1([i \in 1..(out_h * out_w * ch) |->
                     LET k == (i - 1) % ch
                         c == ((i - 1) \div ch) % out_w
                         r == ((i - 1) \div ch) \div out_w
                     IN  At((r * in_h) \div out_h, (c * in_w) \div out_w, k)])]

-----------------------------------------------------------------------------
(* DomainAdapter (lines 283-378); color_conversions is (None, None), so    *)
(* to_colorspace and from_colorspace return their argument.                *)

\* DomainAdapter.flatten (lines 323-338): to_float, reshape(-1, num_channels)
DomainAdapter_flatten(num_channels, image) ==
    Only([f \in {to_float(image)} |->
        Array2([i \in 1..(Len(f.data) \div num_channels) |->
            [c \in 1..num_channels |-> f.data[(i - 1) * num_channels + c]]])])

\* DomainAdapter.reconstruct (lines 340-358): clip(pixels, np.uint8), reshape
DomainAdapter_reconstruct(num_channels, pixels, height, width) ==
    Only([image \in {[shape |-> IF num_channels = 1 THEN <<height, width>>
                   ELSE <<height, width, num_channels>>,
         dtype |-> "float32",
         data |-> Array1([i \in 1..(Len(pixels) * num_channels) |->
                     pixels[((i - 1) \div num_channels) + 1]
                           [((i - 1) % num_channels) + 1]])]} |-> clip(image, "uint8")])

\* DomainAdapter.__init__ (lines 284-294): the source transformer is a deep
\* copy of the unfitted transformer, the target transformer is the
\* transformer itself, fitted to the flattened reference.
DomainAdapter_init(transformer, ref_img, signs) ==
    Only([num_channels \in {get_num_channels(ref_img)} |->
    Only([pixels \in {DomainAdapter_flatten(num_channels, ref_img)} |->
        [source_transformer |-> transformer,
         target_transformer |-> Fit(transformer, pixels, signs),
         num_channels |-> num_channels]])])

Sign(n) == IF n > 0 THEN 1 ELSE IF n < 0 THEN -1 ELSE 0
\* DomainAdapter._pca_sign (lines 360-362): np.sign(np.trace(x.components_))
DomainAdapter_pca_sign(x) ==
    Sign(RSum([k \in 1..Len(x.components_) |-> RInt(x.components_[k][k])])[1])

\* hasattr(transformer, "components_")
HasComponents(transformer) == transformer.kind = "pca"

\* DomainAdapter.__call__ (lines 364-378).  The result is [err, image, self]:
\* the unpacking of image.shape[:2] raises ValueError on an image of fewer
\* than two axes; self is the adapter as the call leaves it.
DomainAdapter_call(self, image, signs) ==
    IF Len(image.shape) < 2
    THEN [err |-> "ValueError", image |-> None, self |-> self]
    ELSE
    Only([pixels \in {DomainAdapter_flatten(self.num_channels, image)} |->
    Only([source \in {Fit(self.source_transformer, pixels, signs)} |->
    Only([target \in {IF /\ HasComponents(self.target_transformer)
           /\ HasComponents(source)
           /\ DomainAdapter_pca_sign(self.target_transformer)
                 # DomainAdapter_pca_sign(source)
        THEN [self.target_transformer EXCEPT
                 !.components_ = Array2([k \in DOMAIN @ |-> [c \in DOMAIN @[k] |->
                                    -1 * @[k][c]]])]
        ELSE self.target_transformer} |->
    Only([representation \in {Transform(source, pixels).x} |->
    Only([result \in {InverseTransform(target, representation).x} |->
        [err |-> NoErr,
         image |-> DomainAdapter_reconstruct(self.num_channels, result,
                                             image.shape[1], image.shape[2]),
         self |-> [self EXCEPT !.source_transformer = source,
                               !.target_transformer = target]]])])])])])

-----------------------------------------------------------------------------
(* adapt_pixel_distribution (lines 381-434)                                *)

DtypeMessage == "Input image and reference image must have the same dtype."
ChannelsMessage ==
    "Input image and reference image must have the same number of channels."

\* Mutant of CheckInputs: the channel counts are compared before the dtypes.
CheckInputs_ChannelsFirst(image, reference) ==
    IF get_num_channels(image) # get_num_channels(reference) THEN ChannelsMessage
    ELSE IF image.dtype # reference.dtype THEN DtypeMessage
    ELSE NoErr

\* lines 407-413: the two preconditions, NoErr when both hold
CheckInputs(image, reference) ==
    IF image.dtype # reference.dtype THEN DtypeMessage
    ELSE IF get_num_channels(image) # get_num_channels(reference)
         THEN ChannelsMessage
    ELSE NoErr

\* img.shape[:2]
Shape2(shape) == SubSeq(shape, 1, Min(2, Len(shape)))

\* lines 407-426: what reaches the adapter.  steps lists, in order, the
\* operations that were carried out on the way.
AdaptInputs(image, reference) ==
    IF CheckInputs(image, reference) # NoErr
    THEN [status |-> "ValueError", message |-> CheckInputs(image, reference),
          steps |-> <<>>, img |-> image, ref |-> reference]
    ELSE
    Only([mono \in {get_num_channels(image) = 1} |->
    Only([img1 \in {IF mono THEN Squeeze(image) ELSE image} |->
    Only([ref1 \in {IF mono THEN Squeeze(reference) ELSE reference} |->
    Only([steps1 \in {IF mono THEN <<"squeeze">> ELSE <<>>} |->
        IF img1.shape # ref1.shape /\ Len(Shape2(img1.shape)) < 2
        THEN [status |-> "cv2.error", message |-> "dsize", steps |-> steps1,
              img |-> img1, ref |-> ref1]
        ELSE
        Only([ref2 \in {IF img1.shape # ref1.shape
            THEN cv2_resize(ref1, Shape2(img1.shape)) ELSE ref1} |->
        Only([steps2 \in {IF img1.shape # ref1.shape
            THEN Append(steps1, "resize") ELSE steps1} |->
            IF img1.dtype = "float32"
            THEN [status |-> "ok", message |-> NoErr,
                  steps |-> Append(steps2, "from_float"),
                  img |-> from_float(img1), ref |-> from_float(ref2)]
            ELSE [status |-> "ok", message |-> NoErr, steps |-> steps2,
                  img |-> img1, ref |-> ref2]])])])])])])

\* img.astype(np.float32) * (1 - weight) + transformed * weight (line 432)
Blend(image, transformed, weight) ==
    [image EXCEPT !.dtype = "float32",
        !.data = Array1([i \in DOMAIN image.data |->
            RAdd(RMul(image.data[i], RSub(RInt(1), weight)),
                 RMul(transformed.data[i], weight))])]

\* @preserve_channel_dim on an image: see PreserveChannelDim
PreserveChannelDimOf(input, result) ==
    [result EXCEPT !.shape = PreserveChannelDim(input.shape, result.shape)]

\* adapt_pixel_distribution(img, ref, transform_type, weight) with its two
\* decorators (lines 381-434).  signs holds the signs the decomposition
\* returns in the fit of the target and of the source transformer.  The
\* result records the outcome (status, message), the returned image, the
\* operations carried out (steps), the reference and the source handed to
\* the adapter and the image the adapter returned.
adapt_pixel_distribution(image, reference, transform_type, weight, signs) ==
    Only([in \in {AdaptInputs(image, reference)} |->
        IF in.status # "ok"
        THEN [status |-> in.status, message |-> in.message, steps |-> in.steps,
              image |-> None, img |-> in.img, ref |-> in.ref,
              transformed |-> None, signs |-> None]
        ELSE
        Only([transformer \in {NewTransformer(transform_type)} |->
        Only([adapter \in {DomainAdapter_init(transformer, in.ref, signs.target)} |->
        Only([called \in {DomainAdapter_call(adapter, in.img, signs.source)} |->
            IF called.err # NoErr
            THEN [status |-> called.err, message |-> "unpack",
                  steps |-> in.steps \o <<"transformer", "fit">>,
                  image |-> None, img |-> in.img, ref |-> in.ref,
                  transformed |-> None, signs |-> None]
            ELSE
            Only([result \in {Blend(in.img, called.image, weight)} |->
            Only([returned \in {IF image.dtype = "uint8" THEN result ELSE to_float(result)} |->
                [status |-> "ok", message |-> NoErr,
                 steps |-> in.steps \o <<"transformer", "fit", "fit",
                                         "transform", "blend">>,
                 image |-> clip(PreserveChannelDimOf(image, returned),
                                image.dtype),
                 img |-> in.img, ref |-> in.ref,
                 transformed |-> called.image, signs |-> signs]])])])])])])

-----------------------------------------------------------------------------
(* SpecAdapt: calls of adapt_pixel_distribution                            *)

AShapes ==
    {<<h, w>> : h \in 1..MaxDim, w \in 1..MaxDim}
    \cup {<<h, w, c>> : h \in 1..MaxDim, w \in 1..MaxDim, c \in {1, 2}}
Dtypes == {"uint8", "float32"}
\* The two sample values of an image: multiples of 51 = 255/5 for uint8 and
\* the matching fractions, and one half, for float32.
PixelPairs(dtype) ==
    IF dtype = "uint8"
    THEN {<<RInt(51), RInt(51)>>, <<RInt(51), RInt(204)>>,
          <<RInt(204), RInt(51)>>, <<RInt(0), RInt(MaxUint8)>>}
    ELSE {<<Rat(1, 2), Rat(1, 2)>>, <<Rat(1, 5), Rat(4, 5)>>,
          <<Rat(4, 5), Rat(1, 5)>>, <<RInt(0), RInt(1)>>}
\* The pair of the images whose shape or dtype differs from the other's
FixedPair(dtype) ==
    IF dtype = "uint8" THEN <<RInt(51), RInt(204)>> ELSE <<Rat(1, 5), Rat(4, 5)>>
Weights == {RInt(0), Rat(1, 2), RInt(1)}

\* An image whose first channel alternates between the two values of pair
\* from pixel to pixel and whose second channel holds the first value.
PatternImage(shape, dtype, pair) ==
    LET ch == IF Len(shape) = NUM_MULTI_CHANNEL_DIMENSIONS THEN shape[3] ELSE 1
    IN  [shape |-> shape, dtype |-> dtype,
         data |-> Array1([i \in 1..(shape[1] * shape[2] * ch) |->
                     IF (i - 1) % ch = 0 /\ ((i - 1) \div ch) % 2 = 1
                     THEN pair[2] ELSE pair[1]])]

\* The references an image is adapted to: the image itself and an image of
\* its shape and dtype with the pair reversed; and, for the images of
\* FixedPair, images of any layout whose height and width are within one of
\* the image's, of the image's dtype, or of the other dtype and the image's
\* height and width.  A 1x1 single-channel reference goes with a 1x1 source
\* only.
ReferencesOf(image, pair) ==
    {image, PatternImage(image.shape, image.dtype, <<pair[2], pair[1]>>)}
    \cup IF pair # FixedPair(image.dtype) THEN {}
         ELSE {PatternImage(shape, dtype, FixedPair(dtype)) :
                 shape \in {sh \in AShapes :
                              /\ Abs(sh[1] - image.shape[1]) <= 1
                              /\ Abs(sh[2] - image.shape[2]) <= 1
                              /\ (sh \in {<<1, 1>>, <<1, 1, 1>>})
                                 => image.shape[1] * image.shape[2] = 1},
                 dtype \in {image.dtype}}
         \cup {PatternImage(shape, dtype, FixedPair(dtype)) :
                 shape \in {sh \in AShapes :
                              sh[1] = image.shape[1] /\ sh[2] = image.shape[2]},
                 dtype \in Dtypes \ {image.dtype}}

InitAdapt ==
    /\ \E shape \in AShapes, dtype \in Dtypes :
         \E pair \in PixelPairs(dtype) :
            /\ adapt_img = PatternImage(shape, dtype, pair)
            /\ adapt_ref \in ReferencesOf(PatternImage(shape, dtype, pair), pair)
    /\ adapt_type = NoValue /\ adapt_weight = NoBeta
    /\ adapted = NotAdapted
    /\ FourierUnused
    /\ adapter_run = NoValue /\ scaler_run = NoValue
    /\ histogram_run = NoValue /\ concurrent_run = NoValue
    /\ AnalyticsUnused

\* The pixel matrices the call fits are ones whose statistics the model
\* computes exactly (see Representable).
CanFit(t) ==
    Only([in \in {AdaptInputs(adapt_img, adapt_ref)} |->
        in.status = "ok" =>
            /\ Only([pixels \in {DomainAdapter_flatten(get_num_channels(in.ref), in.ref)} |-> Representable(t, pixels)])
            /\ Only([pixels \in {DomainAdapter_flatten(get_num_channels(in.ref), in.img)} |-> Representable(t, pixels)])])

Ones(n) == [k \in 1..n |-> 1]

\* One call adapt_pixel_distribution(img, ref, t, w) with a scaler.  The
\* function keeps nothing from one call to the next, so a behaviour makes
\* one call.
AdaptWithScaler ==
    /\ adapted = NotAdapted
    /\ \E t \in TransformTypes \ {"pca"} :
        /\ CanFit(t)
        /\ \E w \in Weights :
            /\ adapt_type' = t
            /\ adapt_weight' = w
            /\ adapted' = LET n == get_num_channels(adapt_img)
                           IN  adapt_pixel_distribution(adapt_img, adapt_ref, t, w,
                                   [source |-> Ones(n), target |-> Ones(n)])
    /\ UNCHANGED <<adapt_img, adapt_ref>>
    /\ UNCHANGED fourier_vars
    /\ UNCHANGED <<adapter_run, scaler_run, histogram_run, concurrent_run,
                analytics_vars>>

\* One call adapt_pixel_distribution(img, ref, "pca", w); each of the two
\* fits returns its basis vectors with signs of its own.
AdaptWithPCA ==
    /\ adapted = NotAdapted
    /\ CanFit("pca")
    /\ \E w \in Weights :
         \E source_signs \in SignVectors(get_num_channels(adapt_img)),
            target_signs \in SignVectors(get_num_channels(adapt_img)) :
            /\ adapt_type' = "pca"
            /\ adapt_weight' = w
            /\ adapted' = adapt_pixel_distribution(adapt_img, adapt_ref, "pca", w,
                            [source |-> source_signs, target |-> target_signs])
    /\ UNCHANGED <<adapt_img, adapt_ref>>
    /\ UNCHANGED fourier_vars
    /\ UNCHANGED <<adapter_run, scaler_run, histogram_run, concurrent_run,
                analytics_vars>>

NextAdapt == AdaptWithScaler \/ AdaptWithPCA

SpecAdapt == InitAdapt /\ [][NextAdapt]_vars

-----------------------------------------------------------------------------
(* Properties of adapt_pixel_distribution                                  *)

Adapted == adapted.status # "pending"
Returned == adapted.status = "ok"
StepsDone == {adapted.steps[i] : i \in DOMAIN adapted.steps}

\* Two images of one shape and dtype whose samples differ by at most one
\* 8-bit level: 1 for uint8, 1/255 for float32.
WithinRounding(a, b) ==
    /\ a.shape = b.shape
    /\ a.dtype = b.dtype
    /\ \A i \in DOMAIN a.data :
          LET d == RSub(a.data[i], b.data[i])
              level == IF a.dtype = "uint8" THEN RInt(1) ELSE Rat(1, MaxUint8)
          IN  RLe(d, level) /\ RLe(RNeg(d), level)

\* C1: with weight = 0 the image adapt_pixel_distribution returns equals img
\* exactly, for uint8 and float32 images, every reference and every
\* transform type.
C1_ZeroWeightReturnsImage ==
    (Returned /\ adapt_weight = RInt(0)) => adapted.image = adapt_img

\* C2: adapting an image to itself (ref = img) with "pca" at weight 1
\* returns the image up to 8-bit rounding, whichever signs the two fits
\* return for their basis vectors.
C2_PcaSelfAdaptationReturnsImage ==
    (Returned /\ adapt_type = "pca" /\ adapt_weight = RInt(1)
        /\ adapt_ref = adapt_img /\ adapt_img.dtype = "uint8")
    => WithinRounding(adapted.image, adapt_img)

\* C3: with "standard" or "minmax", ref = img and weight 1 the call returns
\* img up to 8-bit rounding: the image the adapter hands to the blend is on
\* the [0, 255] scale of the source.
C3_ScalerSelfAdaptationReturnsImage ==
    (Returned /\ adapt_type \in {"standard", "minmax"}
        /\ adapt_weight = RInt(1)
        /\ adapt_ref = adapt_img /\ adapt_img.dtype = "uint8")
    => /\ WithinRounding(adapted.transformed, adapted.img)
       /\ WithinRounding(adapted.image, adapt_img)

\* C5: a dtype mismatch raises ValueError with the dtype message, and with
\* equal dtypes a channel-count mismatch raises ValueError with the channel
\* message; in both cases nothing was computed (no squeeze, resize,
\* conversion, transformer or fit) and the inputs are as they were passed.
C5_MismatchRaisesBeforeComputation ==
    Adapted =>
        LET dtypes == adapt_img.dtype # adapt_ref.dtype
            channels == get_num_channels(adapt_img) # get_num_channels(adapt_ref)
        IN  (dtypes \/ channels) =>
                /\ adapted.status = "ValueError"
                /\ adapted.message = IF dtypes THEN DtypeMessage
                                     ELSE ChannelsMessage
                /\ adapted.steps = <<>>
                /\ adapted.image = None
                /\ adapted.img = adapt_img
                /\ adapted.ref = adapt_ref

\* A call whose images differ in dtype and in channel count together was
\* answered with the dtype error.
C5_Witness ==
    /\ Adapted
    /\ adapt_img.dtype # adapt_ref.dtype
    /\ get_num_channels(adapt_img) # get_num_channels(adapt_ref)
    /\ adapted.status = "ValueError"
    /\ adapted.message = DtypeMessage

\* C6: when the reference is resized, the reference handed to the adapter
\* has the height and the width of the source, square or not.
C6_ReferenceResizedToSourceShape ==
    (Adapted /\ "resize" \in StepsDone)
    => Shape2(adapted.ref.shape) = Shape2(adapted.img.shape)

-----------------------------------------------------------------------------
(* SpecAdapter: one DomainAdapter object, constructed once and called      *)
(* several times (lines 283-378).  A transformer is an object: objects     *)
(* maps the name of an object to its attributes, and the adapter holds     *)
(* names.  "transformer" is the object the caller passes to __init__,      *)
(* "copy" is the object deepcopy makes of it.                              *)

\* A DomainAdapter is called at most MaxCalls times.
MaxCalls == 2

\* lines 291-292: self.source_transformer = deepcopy(transformer),
\* self.target_transformer = transformer
SourceObject == "copy"
TargetObject == "transformer"

\* The adapter as DomainAdapter_init and DomainAdapter_call read it
SelfOf(run) ==
    [source_transformer |-> run.objects[run.source_transformer],
     target_transformer |-> run.objects[run.target_transformer],
     num_channels |-> run.num_channels]

\* The objects after a step that left the adapter as self
ObjectsOf(run, self) ==
    [name \in DOMAIN run.objects |->
        IF name = run.target_transformer THEN self.target_transformer
        ELSE IF name = run.source_transformer THEN self.source_transformer
        ELSE run.objects[name]]

\* The shape of the images of SpecAdapter; the width is 2, so the two
\* values of a pattern image come equally often.
AdapterShapes(channels) ==
    {IF channels = 1 THEN <<MaxDim, 2>> ELSE <<MaxDim, 2, channels>>}
AdapterImages(channels) ==
    {PatternImage(shape, "uint8", pair) :
        shape \in AdapterShapes(channels), pair \in PixelPairs("uint8")}

\* The caller makes a transformer and has a reference image.
InitAdapter ==
    /\ \E t \in TransformTypes, channels \in {1, 2} :
         \E reference \in AdapterImages(channels) :
            adapter_run =
                [status |-> "new", kind |-> t, ref |-> reference,
                 objects |-> [transformer |-> NewTransformer(t)],
                 calls |-> 0]
    /\ FourierUnused /\ AdaptUnused
    /\ scaler_run = NoValue /\ histogram_run = NoValue
    /\ concurrent_run = NoValue
    /\ AnalyticsUnused

FitsExactly(t, image) ==
    Only([pixels \in {DomainAdapter_flatten(get_num_channels(image), image)} |->
        Representable(t, pixels)])

\* The signs a fit of a transformer of type t may give its basis vectors; a
\* scaler has none.
FitSigns(t, channels) ==
    IF t = "pca" THEN SignVectors(channels) ELSE {Ones(channels)}

\* DomainAdapter(transformer, ref_img)
AdapterConstruct ==
    /\ adapter_run.status = "new"
    /\ FitsExactly(adapter_run.kind, adapter_run.ref)
    /\ \E signs \in FitSigns(adapter_run.kind, get_num_channels(adapter_run.ref)) :
        adapter_run' =
            Only([self \in {DomainAdapter_init(adapter_run.objects.transformer,
                                               adapter_run.ref, signs)} |->
                [status |-> "constructed",
                 kind |-> adapter_run.kind, ref |-> adapter_run.ref,
                 target_signs |-> signs,
                 source_transformer |-> SourceObject,
                 target_transformer |-> TargetObject,
                 num_channels |-> self.num_channels,
                 objects |-> [name \in {"transformer", SourceObject, TargetObject} |->
                                IF name = TargetObject THEN self.target_transformer
                                ELSE IF name = SourceObject
                                     THEN self.source_transformer
                                ELSE adapter_run.objects.transformer],
                 calls |-> 0]])
    /\ UNCHANGED <<fourier_vars, adapt_vars>>
    /\ UNCHANGED <<scaler_run, histogram_run, concurrent_run,
                analytics_vars>>

\* What a DomainAdapter made for this one call returns for image
FreshCall(run, image, signs) ==
    Only([fresh \in {DomainAdapter_init(NewTransformer(run.kind), run.ref,
                                        run.target_signs)} |->
        DomainAdapter_call(fresh, image, signs).image])

\* adapter(image)
AdapterCall ==
    /\ adapter_run.status = "constructed"
    /\ adapter_run.calls < MaxCalls
    /\ \E image \in AdapterImages(adapter_run.num_channels) :
        /\ FitsExactly(adapter_run.kind, image)
        /\ \E signs \in FitSigns(adapter_run.kind, adapter_run.num_channels) :
            adapter_run' =
                Only([called \in {DomainAdapter_call(SelfOf(adapter_run),
                                                     image, signs)} |->
                    [image |-> image,
                     \* the transformers transform and inverse_transform used
                     applied |-> called.self,
                     returned |-> called.image,
                     fresh |-> FreshCall(adapter_run, image, signs)]
                    @@ [adapter_run EXCEPT
                        !.objects = ObjectsOf(adapter_run, called.self),
                        !.calls = @ + 1]])
    /\ UNCHANGED <<fourier_vars, adapt_vars>>
    /\ UNCHANGED <<scaler_run, histogram_run, concurrent_run,
                analytics_vars>>

NextAdapter == AdapterConstruct \/ AdapterCall

SpecAdapter == InitAdapter /\ [][NextAdapter]_vars

-----------------------------------------------------------------------------
(* Properties of the DomainAdapter object                                  *)

AdapterCalled ==
    adapter_run.status = "constructed" /\ adapter_run.calls > 0

\* C11: whenever both transformers of the adapter are PCA-style, the bases
\* that source.transform and target.inverse_transform are applied with have
\* the same trace sign, in every call of every sequence of calls, bases of
\* trace zero included.
C11_BasesConsistentlyOriented ==
    (/\ AdapterCalled
     /\ HasComponents(adapter_run.applied.source_transformer)
     /\ HasComponents(adapter_run.applied.target_transformer))
    => DomainAdapter_pca_sign(adapter_run.applied.target_transformer)
         = DomainAdapter_pca_sign(adapter_run.applied.source_transformer)

\* C15: the object the caller passes to DomainAdapter is left as the caller
\* made it by the construction and by every call, and the caller's object,
\* the source transformer and the target transformer are three objects.
C15_CallerTransformerUntouched ==
    adapter_run.status = "constructed"
    => /\ adapter_run.objects["transformer"] = NewTransformer(adapter_run.kind)
       /\ Cardinality({"transformer", adapter_run.source_transformer,
                       adapter_run.target_transformer}) = 3

\* C16: every call on a reused adapter returns what an adapter constructed
\* for that call, of the same transformer and reference, returns for the
\* image.
C16_CallsAreHistoryIndependent ==
    AdapterCalled => adapter_run.returned = adapter_run.fresh

-----------------------------------------------------------------------------
(* SpecScaler: one MinMaxScaler or StandardScaler object (lines 98-237),   *)
(* fitted, applied and inverted by its caller.                             *)
(*                                                                         *)
(* numpy computes in binary floating point.  The operators above compute   *)
(* exactly; the operators below round every operation to the nearest       *)
(* number of FloatBits significant bits, a tie going to the even one, as   *)
(* IEEE 754 does with 24 (float32) and 53 (float64) bits.                  *)

\* Significant bits of the floating-point numbers of the model
FloatBits == 4
\* Samples of the matrices a scaler is fitted to
MaxSamples == 3

RECURSIVE Pow2(_)
Pow2(k) == IF k = 0 THEN 1 ELSE 2 * Pow2(k - 1)
\* x * 2^e
Scaled(x, e) ==
    IF e >= 0 THEN RMul(x, RInt(Pow2(e))) ELSE RDiv(x, RInt(Pow2(-e)))
\* The exponent e + k with 2^(FloatBits-1) <= a / 2^k < 2^FloatBits, a > 0
RECURSIVE FloatExponent(_, _)
FloatExponent(a, e) ==
    IF RLe(RInt(Pow2(FloatBits)), a)
    THEN FloatExponent(RDiv(a, RInt(2)), e + 1)
    ELSE IF RLt(a, RInt(Pow2(FloatBits - 1)))
    THEN FloatExponent(RMul(a, RInt(2)), e - 1)
    ELSE e
\* The floating-point number nearest to x
Float(x) ==
    IF x[1] = 0 THEN x
    ELSE Only([e \in {FloatExponent(Rat(Abs(x[1]), x[2]), 0)} |->
            Scaled(RInt(RRint(Scaled(x, -e))), e)])
\* The exponent e + k with 4^(FloatBits-1) <= a / 4^k < 4^FloatBits, a > 0
RECURSIVE SqrtExponent(_, _)
SqrtExponent(a, e) ==
    IF RLe(RInt(Pow2(2 * FloatBits)), a)
    THEN SqrtExponent(RDiv(a, RInt(4)), e + 1)
    ELSE IF RLt(a, RInt(Pow2(2 * FloatBits - 2)))
    THEN SqrtExponent(RMul(a, RInt(4)), e - 1)
    ELSE e
\* np.sqrt(x): the floating-point number nearest to the square root of x >= 0
FloatSqrt(x) ==
    IF x[1] = 0 THEN x
    ELSE
    Only([e \in {SqrtExponent(x, 0)} |->
    Only([a \in {Scaled(x, -2 * e)} |->
    Only([q \in {ISqrt(RFloor(a))} |->
    Only([half \in {Rat((2 * q + 1) * (2 * q + 1), 4)} |->
        Float(Scaled(RInt(IF RLt(half, a) \/ (half = a /\ q % 2 = 1)
                          THEN q + 1 ELSE q), e))])])])])
\* np.add.reduce(xs): the samples added one after the other
RECURSIVE FloatSum(_, _)
FloatSum(xs, acc) ==
    IF xs = <<>> THEN acc ELSE FloatSum(Tail(xs), Float(RAdd(acc, xs[1])))
\* np.mean(xs)
FloatMean(xs) == Float(RDiv(FloatSum(xs, RInt(0)), RInt(Len(xs))))
\* np.var(xs): mean(abs(xs - xs.mean()) ** 2)
FloatVar(xs) ==
    Only([m \in {FloatMean(xs)} |->
        FloatMean(Array1([i \in 1..Len(xs) |->
            Only([d \in {Float(RSub(xs[i], m))} |-> Float(RMul(d, d))])]))])

\* StandardScaler.fit (lines 177-193) in floating point
StandardScaler_fit_float(self, x) ==
    Only([var \in {Array1([c \in Features(x) |-> FloatVar(Column(x, c))])} |->
    Only([scale \in {Array1([c \in Features(x) |-> FloatSqrt(var[c])])} |->
        [self EXCEPT
            !.mean = Array1([c \in Features(x) |-> FloatMean(Column(x, c))]),
            !.var = var,
            \* self.scale[self.scale == 0] = 1
            !.scale = Array1([c \in Features(x) |->
                         IF scale[c] = RInt(0) THEN RInt(1) ELSE scale[c]])]])])

\* StandardScaler.transform (lines 195-215) in floating point
StandardScaler_transform_float(self, x) ==
    IF self.mean = None \/ self.scale = None
    THEN [err |-> "ValueError", x |-> None]
    ELSE [err |-> NoErr,
          x |-> Array2([i \in 1..Len(x) |-> [c \in Features(x) |->
                   Float(RDiv(Float(RSub(x[i][c], self.mean[c])),
                              self.scale[c]))]])]

\* StandardScaler.inverse_transform (lines 217-237) in floating point
StandardScaler_inverse_transform_float(self, x) ==
    IF self.mean = None \/ self.scale = None
    THEN [err |-> "ValueError", x |-> None]
    ELSE [err |-> NoErr,
          x |-> Array2([i \in 1..Len(x) |-> [c \in Features(x) |->
                   Float(RAdd(Float(RMul(x[i][c], self.scale[c])),
                              self.mean[c]))]])]

\* MinMaxScaler(feature_range) (lines 99-103)
MinMaxScaler_init(feature_range) ==
    [MinMaxScaler EXCEPT !.min = feature_range[1], !.max = feature_range[2]]
\* The output intervals of the model: the default one and another
FeatureRanges == {<<RInt(0), RInt(1)>>, <<RInt(-1), RInt(3)>>}

\* The columns of the matrices: one value in every sample, or two values in
\* turn
ScalerColumns(n) ==
    {[i \in 1..n |-> IF i % 2 = 1 THEN pair[1] ELSE pair[2]] :
        pair \in {<<RInt(1), RInt(1)>>, <<Rat(7, 4), Rat(7, 4)>>,
                  <<RInt(0), RInt(1)>>, <<RInt(1), Rat(7, 4)>>}}
ScalerMatrices ==
    UNION {{Array2([i \in 1..n |-> <<col[i]>>]) : col \in ScalerColumns(n)}
           \cup {Array2([i \in 1..n |-> <<col[i], other[i]>>]) :
                    col \in ScalerColumns(n), other \in ScalerColumns(n)} :
           n \in 1..MaxSamples}

\* The data transform and inverse_transform are given before a fit
UnfittedArguments == {x \in ScalerMatrices : Len(x) = MaxSamples}

\* The arithmetic of a run: "real" computes exactly, "float" rounds
ScalerFit(arithmetic, self, x) ==
    IF arithmetic = "float" THEN StandardScaler_fit_float(self, x)
    ELSE Fit(self, x, Ones(NumFeatures(x)))
ScalerTransform(arithmetic, self, x) ==
    IF arithmetic = "float" THEN StandardScaler_transform_float(self, x)
    ELSE Transform(self, x)
ScalerInverseTransform(arithmetic, self, x) ==
    IF arithmetic = "float" THEN StandardScaler_inverse_transform_float(self, x)
    ELSE InverseTransform(self, x)

NoResult == [err |-> NoErr, x |-> None]

\* scaler = MinMaxScaler(feature_range) or scaler = StandardScaler()
InitScaler ==
    /\ \E made \in {[scaler |-> MinMaxScaler_init(range), arithmetic |-> "real"] :
                        range \in FeatureRanges}
                   \cup {[scaler |-> StandardScaler, arithmetic |-> a] :
                            a \in {"real", "float"}} :
        scaler_run = [scaler |-> made.scaler, arithmetic |-> made.arithmetic,
                      fitted_on |-> None, op |-> "init", arg |-> None,
                      of |-> None, result |-> NoResult]
    /\ FourierUnused /\ AdaptUnused
    /\ adapter_run = NoValue /\ histogram_run = NoValue
    /\ concurrent_run = NoValue
    /\ AnalyticsUnused

\* scaler.fit(x), of a new scaler, of one that raised, or again after a
\* transform and inverse_transform
ScalerFitCall ==
    /\ scaler_run.fitted_on = None \/ scaler_run.op = "inverse_transform"
    /\ \E x \in ScalerMatrices :
        /\ scaler_run.arithmetic = "real" => Representable(scaler_run.scaler.kind, x)
        /\ scaler_run' =
            [scaler_run EXCEPT
                !.scaler = ScalerFit(scaler_run.arithmetic, @, x),
                !.fitted_on = x, !.op = "fit", !.arg = x, !.of = None,
                !.result = NoResult]
    /\ UNCHANGED <<fourier_vars, adapt_vars>>
    /\ UNCHANGED <<adapter_run, histogram_run, concurrent_run,
                analytics_vars>>

\* scaler.transform(x): of the data of the fit, or of any data before a fit
ScalerTransformCall ==
    /\ \E x \in IF scaler_run.fitted_on = None THEN UnfittedArguments
                ELSE {scaler_run.fitted_on} :
        scaler_run' =
            [scaler_run EXCEPT
                !.op = "transform", !.arg = x, !.of = None,
                !.result = ScalerTransform(scaler_run.arithmetic,
                                           scaler_run.scaler, x)]
    /\ UNCHANGED <<fourier_vars, adapt_vars>>
    /\ UNCHANGED <<adapter_run, histogram_run, concurrent_run,
                analytics_vars>>

\* scaler.inverse_transform(x): of what transform returned last, or of any
\* data before a fit
ScalerInverseTransformCall ==
    /\ \/ scaler_run.fitted_on = None
       \/ scaler_run.op = "transform"
    /\ \E x \in IF scaler_run.fitted_on = None THEN UnfittedArguments
                ELSE {scaler_run.result.x} :
        scaler_run' =
            [scaler_run EXCEPT
                !.op = "inverse_transform", !.arg = x,
                !.of = IF scaler_run.fitted_on = None THEN None
                       ELSE scaler_run.arg,
                !.result = ScalerInverseTransform(scaler_run.arithmetic,
                                                  scaler_run.scaler, x)]
    /\ UNCHANGED <<fourier_vars, adapt_vars>>
    /\ UNCHANGED <<adapter_run, histogram_run, concurrent_run,
                analytics_vars>>

NextScaler ==
    ScalerFitCall \/ ScalerTransformCall \/ ScalerInverseTransformCall

SpecScaler == InitScaler /\ [][NextScaler]_vars

-----------------------------------------------------------------------------
(* Properties of the scalers                                               *)

Applied == scaler_run.op \in {"transform", "inverse_transform"}
ConstantFeature(x, c) == \A i \in 1..Len(x) : x[i][c] = x[1][c]
\* inverse_transform was given what transform returned for the data of the fit
RoundTrip ==
    /\ scaler_run.op = "inverse_transform"
    /\ scaler_run.fitted_on # None
    /\ scaler_run.of = scaler_run.fitted_on

\* C12: transform and inverse_transform of a scaler that was never fitted
\* raise ValueError, return nothing and leave the scaler as it was made;
\* after a fit they return a result.
C12_UsableOnlyAfterFit ==
    Applied =>
        IF scaler_run.fitted_on = None
        THEN /\ scaler_run.result = [err |-> "ValueError", x |-> None]
             /\ scaler_run.scaler \in
                    {StandardScaler} \cup
                    {MinMaxScaler_init(range) : range \in FeatureRanges}
        ELSE /\ scaler_run.result.err = NoErr
             /\ scaler_run.result.x # None
             /\ Len(scaler_run.result.x) = Len(scaler_run.arg)

C12_Witness ==
    /\ scaler_run.op = "inverse_transform"
    /\ scaler_run.fitted_on = None
    /\ scaler_run.scaler.kind = "minmax"
    /\ scaler_run.result.err = "ValueError"

\* C13: after a fit to data whose feature c is constant, data_range[c] of a
\* MinMaxScaler and scale[c] of a StandardScaler are 1; transform of the
\* data gives lo (MinMaxScaler) and 0 (StandardScaler) in that feature, and
\* inverse_transform of that gives the constant back.
C13_ConstantFeatureStaysDefined ==
    scaler_run.fitted_on # None =>
        \A c \in Features(scaler_run.fitted_on) :
            ConstantFeature(scaler_run.fitted_on, c) =>
                /\ IF scaler_run.scaler.kind = "minmax"
                   THEN scaler_run.scaler.data_range[c] = RInt(1)
                   ELSE scaler_run.scaler.scale[c] = RInt(1)
                /\ scaler_run.op = "transform" =>
                     \A i \in 1..Len(scaler_run.result.x) :
                        scaler_run.result.x[i][c] =
                            IF scaler_run.scaler.kind = "minmax"
                            THEN scaler_run.scaler.min ELSE RInt(0)
                /\ RoundTrip =>
                     \A i \in 1..Len(scaler_run.result.x) :
                        scaler_run.result.x[i][c] = scaler_run.fitted_on[i][c]

\* C14: inverse_transform(transform(X)) = X for a MinMaxScaler of output
\* interval [0, 1] and a StandardScaler fitted to X, when every feature of X
\* has two distinct samples; the arithmetic is exact (the floating-point
\* result differs from X by rounding).
TwoDistinctSamples(x) == \A c \in Features(x) : ~ConstantFeature(x, c)
C14_Case ==
    /\ RoundTrip
    /\ scaler_run.arithmetic = "real"
    /\ TwoDistinctSamples(scaler_run.fitted_on)
    /\ scaler_run.scaler.kind = "minmax" =>
          scaler_run.scaler.min = RInt(0) /\ scaler_run.scaler.max = RInt(1)
C14_InverseUndoesTransform ==
    C14_Case => scaler_run.result.x = scaler_run.fitted_on

C14_Witness ==
    /\ C14_Case
    /\ scaler_run.scaler.kind = "minmax"
    /\ NumFeatures(scaler_run.fitted_on) = 2
    /\ scaler_run.scaler.data_min[1] # RInt(0)
    /\ scaler_run.result.x = scaler_run.fitted_on

-----------------------------------------------------------------------------
(* SpecConcurrent: two threads call one DomainAdapter, each with its own   *)
(* image (lines 364-378).  A thread does one statement of __call__ at a    *)
(* time; the transformers of the adapter are shared.  With use_lock the    *)
(* callers hold a mutex of their own around each call.                     *)

Threads == {1, 2}
NoThread == 0

\* Whether thread t may enter __call__: the caller's mutex, when there is
\* one, is free
MayEnter(run, t) == run.use_lock => run.lock = NoThread
\* A source transformer fitted by the first call only
CallFit_OnlyFirst(self, pixels, signs) ==
    IF self.source_transformer = NewTransformer(self.source_transformer.kind)
    THEN [self EXCEPT !.source_transformer = Fit(@, pixels, signs)]
    ELSE self
\* line 367: self.source_transformer.fit(pixels)
CallFit(self, pixels, signs) ==
    [self EXCEPT !.source_transformer = Fit(@, pixels, signs)]
\* lines 369-374: the sign step
CallSign(self) ==
    IF /\ HasComponents(self.target_transformer)
       /\ HasComponents(self.source_transformer)
       /\ DomainAdapter_pca_sign(self.target_transformer)
             # DomainAdapter_pca_sign(self.source_transformer)
    THEN [self EXCEPT !.target_transformer.components_ =
             Array2([k \in DOMAIN @ |-> [c \in DOMAIN @[k] |-> -1 * @[k][c]]])]
    ELSE self
\* line 375: representation = self.source_transformer.transform(pixels)
CallTransform(self, pixels) == Transform(self.source_transformer, pixels).x
\* line 376: result = self.target_transformer.inverse_transform(representation)
CallInverse(self, representation) ==
    InverseTransform(self.target_transformer, representation).x
\* lines 377-378: return self.reconstruct(result, height, width)
CallReturn(self, image, pixels) ==
    DomainAdapter_reconstruct(self.num_channels, pixels,
                              image.shape[1], image.shape[2])

\* The images of the two threads: single-channel, and different
ThreadImages ==
    {images \in [Threads -> AdapterImages(1)] : images[1] # images[2]}

\* The adapter is constructed; both threads are about to call it.
InitConcurrent ==
    /\ \E t \in TransformTypes, use_lock \in BOOLEAN,
          reference \in AdapterImages(1), images \in ThreadImages :
        /\ \A image \in {reference, images[1], images[2]} : FitsExactly(t, image)
        /\ concurrent_run =
            [use_lock |-> use_lock, lock |-> NoThread,
             self |-> DomainAdapter_init(NewTransformer(t), reference, Ones(1)),
             constructed |->
                DomainAdapter_init(NewTransformer(t), reference, Ones(1)),
             pc |-> [th \in Threads |-> "idle"],
             image |-> images,
             signs |-> [th \in Threads |-> Ones(1)],
             representation |-> [th \in Threads |-> None],
             result |-> [th \in Threads |-> None],
             returned |-> [th \in Threads |-> None]]
    /\ FourierUnused /\ AdaptUnused
    /\ adapter_run = NoValue /\ scaler_run = NoValue
    /\ AnalyticsUnused
    /\ histogram_run = NoValue

\* A call leaves the arguments and results of the other entry points alone
ConcurrentFrame ==
    /\ UNCHANGED <<fourier_vars, adapt_vars>>
    /\ UNCHANGED <<adapter_run, scaler_run, histogram_run,
                analytics_vars>>

PixelsOf(run, t) == DomainAdapter_flatten(run.self.num_channels, run.image[t])

\* thread t enters adapter(image), taking the mutex when there is one
ThreadEnter(t) ==
    /\ concurrent_run.pc[t] = "idle"
    /\ MayEnter(concurrent_run, t)
    /\ concurrent_run' =
        [concurrent_run EXCEPT
            !.lock = IF concurrent_run.use_lock THEN t ELSE @,
            !.pc[t] = "fit"]
    /\ ConcurrentFrame

ThreadFit(t) ==
    /\ concurrent_run.pc[t] = "fit"
    /\ \E signs \in FitSigns(concurrent_run.self.source_transformer.kind, 1) :
        concurrent_run' =
            [concurrent_run EXCEPT
                !.self = CallFit(@, PixelsOf(concurrent_run, t), signs),
                !.signs[t] = signs,
                !.pc[t] = "sign"]
    /\ ConcurrentFrame

ThreadSign(t) ==
    /\ concurrent_run.pc[t] = "sign"
    /\ concurrent_run' =
        [concurrent_run EXCEPT !.self = CallSign(@), !.pc[t] = "transform"]
    /\ ConcurrentFrame

ThreadTransform(t) ==
    /\ concurrent_run.pc[t] = "transform"
    /\ concurrent_run' =
        [concurrent_run EXCEPT
            !.representation[t] =
                CallTransform(concurrent_run.self, PixelsOf(concurrent_run, t)),
            !.pc[t] = "inverse_transform"]
    /\ ConcurrentFrame

ThreadInverse(t) ==
    /\ concurrent_run.pc[t] = "inverse_transform"
    /\ concurrent_run' =
        [concurrent_run EXCEPT
            !.result[t] =
                CallInverse(concurrent_run.self, concurrent_run.representation[t]),
            !.pc[t] = "return"]
    /\ ConcurrentFrame

\* thread t returns, and its caller releases the mutex
ThreadReturn(t) ==
    /\ concurrent_run.pc[t] = "return"
    /\ concurrent_run' =
        [concurrent_run EXCEPT
            !.returned[t] = CallReturn(concurrent_run.self, concurrent_run.image[t],
                                       concurrent_run.result[t]),
            !.lock = IF concurrent_run.use_lock THEN NoThread ELSE @,
            !.pc[t] = "done"]
    /\ ConcurrentFrame

NextConcurrent ==
    \E t \in Threads :
        \/ ThreadEnter(t)
        \/ ThreadFit(t)
        \/ ThreadSign(t)
        \/ ThreadTransform(t)
        \/ ThreadInverse(t)
        \/ ThreadReturn(t)

SpecConcurrent == InitConcurrent /\ [][NextConcurrent]_vars

\* What thread t's call returns when it is the only call of the adapter
SoloResult(run, t) ==
    DomainAdapter_call(run.constructed, run.image[t], run.signs[t]).image

\* C17: when the callers serialise the calls of one adapter with a mutex,
\* every call returns what it returns alone; without the mutex there is an
\* interleaving in which a call returns something else
\* (C17_UnsafeInterleaving).
C17_SerialisedCallsReturnSoloResult ==
    concurrent_run.use_lock =>
        \A t \in Threads :
            concurrent_run.pc[t] = "done" =>
                concurrent_run.returned[t] = SoloResult(concurrent_run, t)

\* Without the mutex, a call has returned something else than alone: the
\* other thread's fit came between its fit and its transform.
C17_UnsafeInterleaving ==
    /\ ~concurrent_run.use_lock
    /\ \E t \in Threads :
        /\ concurrent_run.pc[t] = "done"
        /\ concurrent_run.returned[t] # SoloResult(concurrent_run, t)

-----------------------------------------------------------------------------
(* Histogram matching (lines 547-641)                                      *)

\* The value of a sample of a uint8 image
Value(x) == x[1]
\* array[..., k] for k in 0..(shape[-1] - 1), flattened
LastAxisSlice(image, k) ==
    Only([n \in {image.shape[Len(image.shape)]} |->
        Array1([p \in 1..(Len(image.data) \div n) |->
            Value(image.data[(p - 1) * n + k + 1])])])

\* np.cumsum(np.bincount(values))[v]: the samples that are <= v
CountUpTo(values, v) == Cardinality({i \in DOMAIN values : values[i] <= v})
\* np.nonzero(np.bincount(template))[0], in increasing order
RECURSIVE SortedValues(_)
SortedValues(S) ==
    IF S = {} THEN <<>>
    ELSE Only([least \in {CHOOSE v \in S : \A w \in S : v <= w} |->
            <<least>> \o SortedValues(S \ {least})])
\* np.interp(x, xp, fp) for increasing xp: fp[1] below xp[1], fp[last] above
\* xp[last], the straight line between neighbours in between
np_interp(x, xp, fp) ==
    IF RLe(x, xp[1]) THEN RInt(fp[1])
    ELSE IF RLe(xp[Len(xp)], x) THEN RInt(fp[Len(fp)])
    ELSE Only([j \in {CHOOSE j \in 1..(Len(xp) - 1) :
                        RLe(xp[j], x) /\ RLt(x, xp[j + 1])} |->
            RAdd(RInt(fp[j]),
                 RMul(RSub(x, xp[j]),
                      RDiv(RInt(fp[j + 1] - fp[j]), RSub(xp[j + 1], xp[j]))))])

\* _match_cumulative_cdf(source, template) (lines 627-641) on the flattened
\* arrays; astype(np.uint8) truncates
match_cumulative_cdf(source, template) ==
    Only([tmpl_values \in {SortedValues({template[i] : i \in DOMAIN template})} |->
    Only([tmpl_quantiles \in {Array1([j \in DOMAIN tmpl_values |->
                Rat(CountUpTo(template, tmpl_values[j]), Len(template))])} |->
    Only([interp_a_values \in {[v \in {source[i] : i \in DOMAIN source} |->
                np_interp(Rat(CountUpTo(source, v), Len(source)),
                          tmpl_quantiles, tmpl_values)]} |->
        Array1([i \in DOMAIN source |-> RTrunc(interp_a_values[source[i]])])])])])

\* match_histograms(image, reference) with @uint8_io (lines 594-624): the
\* image is brought to uint8 by from_float and the result back by to_float
\* when the image is not uint8; a "channel" is an index of the last axis.
match_histograms(image, reference) ==
    Only([image8 \in {IF image.dtype # "uint8" THEN from_float(image) ELSE image} |->
    Only([reference8 \in {IF reference.dtype # "uint8" THEN from_float(reference)
                          ELSE reference} |->
    Only([num_channels \in {image8.shape[Len(image8.shape)]} |->
    Only([matched_channel \in {Array2([k \in 1..num_channels |->
                match_cumulative_cdf(LastAxisSlice(image8, k - 1),
                                     LastAxisSlice(reference8, k - 1))])} |->
    Only([matched \in {[shape |-> image8.shape, dtype |-> "uint8",
               data |-> Array1([i \in DOMAIN image8.data |->
                   RInt(matched_channel[((i - 1) % num_channels) + 1]
                                       [((i - 1) \div num_channels) + 1])])]} |->
        IF image.dtype # "uint8" THEN to_float(matched) ELSE matched])])])])])

\* albucore.add_weighted(img1, weight1, img2, weight2): img1 * weight1 +
\* img2 * weight2, rounded to the nearest integer and saturated for uint8
add_weighted(img1, weight1, img2, weight2) ==
    [img1 EXCEPT !.data = Array1([i \in DOMAIN img1.data |->
        Only([sum \in {RAdd(RMul(img1.data[i], weight1),
                            RMul(img2.data[i], weight2))} |->
            IF img1.dtype = "uint8"
            THEN RInt(Min(Max(RRint(sum), 0), MaxUint8))
            ELSE sum])])]

\* The weights of the two images exchanged
HistogramBlend_Exchanged(matched, image, blend_ratio) ==
    add_weighted(matched, RSub(RInt(1), blend_ratio), image, blend_ratio)
\* line 591: add_weighted(matched, blend_ratio, img, 1 - blend_ratio)
HistogramBlend(matched, image, blend_ratio) ==
    add_weighted(matched, blend_ratio, image, RSub(RInt(1), blend_ratio))

\* apply_histogram(img, reference_image, blend_ratio) with @clipped and
\* @preserve_channel_dim (lines 547-591).  reshape raises ValueError when
\* the resized reference has not as many samples as img.
apply_histogram(image, reference_image, blend_ratio) ==
    Only([resized \in {IF Shape2(image.shape) # Shape2(reference_image.shape)
                       THEN cv2_resize(reference_image,
                                       <<image.shape[2], image.shape[1]>>)
                       ELSE reference_image} |->
        IF Len(resized.data) # Len(image.data)
        THEN [err |-> "ValueError", image |-> None, reference |-> None,
              matched |-> None]
        ELSE
        Only([reference \in {[resized EXCEPT !.shape = image.shape]} |->
        Only([matched \in {match_histograms(image, reference)} |->
        Only([blended \in {HistogramBlend(matched, image, blend_ratio)} |->
            [err |-> NoErr,
             image |-> PreserveChannelDimOf(image, clip(blended, image.dtype)),
             reference |-> reference,
             matched |-> matched]])])])])

-----------------------------------------------------------------------------
(* SpecHistogram: calls of apply_histogram                                 *)

\* The samples of an image repeat one of these sequences of 8-bit values
HistogramPatterns ==
    {<<0, 0, 102, 102>>, <<102, 102, 0, 0>>, <<0, 255, 0, 255>>,
     <<255, 51, 0, 0>>, <<51, 51, 51, 51>>, <<0, 51, 102, 255>>,
     <<0, 102, 51, 255>>}
FixedPattern == <<0, 51, 102, 255>>
HistogramImage(shape, dtype, pattern) ==
    [shape |-> shape, dtype |-> dtype,
     data |-> Array1([i \in 1..Product(shape) |->
                 IF dtype = "uint8"
                 THEN RInt(pattern[((i - 1) % Len(pattern)) + 1])
                 ELSE Rat(pattern[((i - 1) % Len(pattern)) + 1], MaxUint8)])]
\* The references an image is matched to: images of its shape and dtype,
\* and images of FixedPattern of any shape and dtype
HistogramReferences(image) ==
    {HistogramImage(image.shape, image.dtype, pattern) :
        pattern \in HistogramPatterns}
    \cup {HistogramImage(shape, dtype, FixedPattern) :
            shape \in AShapes, dtype \in Dtypes}
BlendRatios == {RInt(0), Rat(1, 2), RInt(1)}

InitHistogram ==
    /\ \E shape \in AShapes, dtype \in Dtypes, pattern \in HistogramPatterns,
          blend_ratio \in BlendRatios :
        \E reference \in
                HistogramReferences(HistogramImage(shape, dtype, pattern)) :
            histogram_run =
                [status |-> "pending",
                 img |-> HistogramImage(shape, dtype, pattern),
                 reference_image |-> reference,
                 blend_ratio |-> blend_ratio]
    /\ FourierUnused /\ AdaptUnused
    /\ adapter_run = NoValue /\ scaler_run = NoValue
    /\ concurrent_run = NoValue
    /\ AnalyticsUnused

\* One call apply_histogram(img, reference_image, blend_ratio)
ApplyHistogram ==
    /\ histogram_run.status = "pending"
    /\ histogram_run' =
        [status |-> "returned"]
        @@ apply_histogram(histogram_run.img, histogram_run.reference_image,
                           histogram_run.blend_ratio)
        @@ histogram_run
    /\ UNCHANGED <<fourier_vars, adapt_vars>>
    /\ UNCHANGED <<adapter_run, scaler_run, concurrent_run,
                analytics_vars>>

NextHistogram == ApplyHistogram

SpecHistogram == InitHistogram /\ [][NextHistogram]_vars

-----------------------------------------------------------------------------
(* Properties of histogram matching                                        *)

HistogramReturned ==
    histogram_run.status = "returned" /\ histogram_run.err = NoErr
\* The fraction of the samples of values that are <= v
Fraction(values, v) == Rat(CountUpTo(values, v), Len(values))
\* The largest fraction of the samples of values that hold one value
MaxMass(values) ==
    Rat(CHOOSE n \in 1..Len(values) :
            /\ \E v \in {values[i] : i \in DOMAIN values} :
                    Cardinality({i \in DOMAIN values : values[i] = v}) = n
            /\ \A v \in {values[i] : i \in DOMAIN values} :
                    Cardinality({i \in DOMAIN values : values[i] = v}) <= n,
        Len(values))
\* The reference's cumulative histogram at the matched value of a sample is
\* within one value's mass of the source's at the sample's value
CumulativeHistogramsAgree(source, template, matched) ==
    \A i \in DOMAIN source :
        Only([d \in {RSub(Fraction(template, matched[i]),
                          Fraction(source, source[i]))} |->
            RLe(RInt(0), RAdd(d, MaxMass(template)))
            /\ RLe(d, MaxMass(template))])
\* The 8-bit samples of an image, as match_histograms sees them
Samples8(image) ==
    Only([image8 \in {IF image.dtype # "uint8" THEN from_float(image) ELSE image} |->
        Array1([i \in DOMAIN image8.data |-> Value(image8.data[i])])])

\* C18: apply_histogram with blend_ratio = 0 returns the image, for every
\* image and every reference of as many channels, resized or not.
C18_ZeroBlendReturnsImage ==
    (/\ histogram_run.status = "returned"
     /\ histogram_run.blend_ratio = RInt(0)
     /\ get_num_channels(histogram_run.img)
            = get_num_channels(histogram_run.reference_image))
    => /\ histogram_run.err = NoErr
       /\ histogram_run.image = histogram_run.img

C18_Witness ==
    /\ HistogramReturned
    /\ histogram_run.blend_ratio = RInt(0)
    /\ Shape2(histogram_run.img.shape) # Shape2(histogram_run.reference_image.shape)
    /\ histogram_run.matched.data # histogram_run.img.data
    /\ histogram_run.image = histogram_run.img

\* C19: for a single-channel 8-bit image and reference, 2-D or H x W x 1,
\* the matched value m(v) of every value v of the image is such that the
\* fraction of reference samples <= m(v) differs from the fraction of image
\* samples <= v by at most the mass of one reference value.
C19_CumulativeHistogramsAgree ==
    (/\ HistogramReturned
     /\ histogram_run.img.dtype = "uint8"
     /\ histogram_run.reference_image.dtype = "uint8"
     /\ get_num_channels(histogram_run.img) = 1)
    => CumulativeHistogramsAgree(Samples8(histogram_run.img),
                                 Samples8(histogram_run.reference),
                                 Samples8(histogram_run.matched))

\* C20: a 2-D (H x W) image is matched as one channel of H x W pixels: the
\* matched values are those of the same image and reference given as
\* H x W x 1.
C20_GrayscaleMatchedAsOneChannel ==
    (HistogramReturned /\ Len(histogram_run.img.shape) = MONO_CHANNEL_DIMENSIONS)
    => histogram_run.matched.data =
          match_histograms(
              [histogram_run.img EXCEPT !.shape = Append(@, 1)],
              [histogram_run.reference EXCEPT !.shape = Append(@, 1)]).data

-----------------------------------------------------------------------------
(* TelemetryClient and GoogleAnalyticsBackend                               *)
(* (core/analytics/telemetry.py, core/analytics/backends/google.py)         *)

\* The clock advances up to MaxClock seconds; at most MaxObjects
\* TelemetryClient objects are ever allocated.
MaxClock == 75
MaxObjects == 2

\* self.rate_limit = 30.0: seconds between sends
RateLimit == 30

\* cls._instance = None, telemetry_client = None
NoObject == 0

\* compose_data.get("pipeline_hash"): a hash, or "" for an empty or missing one
PipelineHashes == {"", "a1", "b2"}

\* What compose_data holds besides the hash: the fields of ComposeInitEvent
\* with values json can write, a key ComposeInitEvent does not have, a value
\* json cannot write, or a list that contains itself
ComposeKinds == {"plain", "unexpected_key", "not_serialisable", "circular"}
ComposeData ==
    [pipeline_hash : PipelineHashes, kind : {"plain"}]
    \cup [pipeline_hash : {"a1"}, kind : ComposeKinds]

\* What urllib.request.urlopen does: answers, or raises urllib.error.URLError
\* (a subclass of OSError)
Networks == {"ok", "URLError"}

\* An object fresh from object.__new__: no attribute of its own, so that
\* self._initialized reads the class attribute, False
NewTelemetryClient ==
    [initialized |-> FALSE, backend |-> NoObject, enabled |-> FALSE,
     sent_pipelines |-> {}, last_send_time |-> 0, rate_limit |-> 0]

\* TelemetryClient.__new__(cls): cls is the class attribute _instance and
\* the objects allocated so far; returns the class and the object's index
TelemetryClient_new(cls) ==
    IF cls.instance = NoObject
    THEN [instance |-> Len(cls.objects) + 1,
          objects |-> Append(cls.objects, NewTelemetryClient)]
    ELSE cls

\* GoogleAnalyticsBackend.__init__: self.client_id = str(uuid.uuid4()), the
\* uuid-th identifier drawn in this process
GoogleAnalyticsBackend_init(uuid) == uuid

\* TelemetryClient.__init__(self) on an object whose class attribute
\* _initialized is False; ci is is_ci_environment() or is_pytest_running()
TelemetryClient_init_Unguarded(self, ci, uuid) ==
    [initialized |-> TRUE, backend |-> GoogleAnalyticsBackend_init(uuid),
     enabled |-> ~ci, sent_pipelines |-> {}, last_send_time |-> 0,
     rate_limit |-> RateLimit]
TelemetryClient_init(self, ci, uuid) ==
    IF ~self.initialized
    THEN [initialized |-> TRUE, backend |-> GoogleAnalyticsBackend_init(uuid),
          enabled |-> ~ci, sent_pipelines |-> {}, last_send_time |-> 0,
          rate_limit |-> RateLimit]
    ELSE self

\* GoogleAnalyticsBackend.send_event(event): json.dumps(payload) raises
\* TypeError for a value it cannot write and ValueError for a circular
\* reference, neither of them caught here; urlopen's OSError and URLError
\* are caught. requested: urlopen was called; delivered: it answered.
GoogleAnalyticsBackend_send_event(kind, network) ==
    CASE kind = "not_serialisable" ->
            [invoked |-> TRUE, raised |-> "TypeError",
             requested |-> FALSE, delivered |-> FALSE]
      [] kind = "circular" ->
            [invoked |-> TRUE, raised |-> "ValueError",
             requested |-> FALSE, delivered |-> FALSE]
      [] OTHER ->
            [invoked |-> TRUE, raised |-> NoErr,
             requested |-> TRUE, delivered |-> network = "ok"]

\* send_event was not called
NotSent ==
    [invoked |-> FALSE, raised |-> NoErr,
     requested |-> FALSE, delivered |-> FALSE]

\* track_compose_init, lines 49-54: the client is disabled, the instance
\* opted out, or the global setting is off
OptedOut_IgnoringSetting(self, telemetry, setting) ==
    ~self.enabled \/ ~telemetry
OptedOut(self, telemetry, setting) ==
    \/ ~self.enabled \/ ~telemetry
    \/ ~setting

\* track_compose_init, line 58: pipeline_hash and pipeline_hash in
\* self.sent_pipelines
AlreadySent_Unchecked(self, pipeline_hash) ==
    pipeline_hash # "" /\ pipeline_hash \in {}
AlreadySent(self, pipeline_hash) ==
    pipeline_hash # "" /\ pipeline_hash \in self.sent_pipelines

\* track_compose_init, line 63
TooSoon_HalfLimit(self, current_time) ==
    2 * (current_time - self.last_send_time) < self.rate_limit
TooSoon_Inclusive(self, current_time) ==
    current_time - self.last_send_time <= self.rate_limit
TooSoon(self, current_time) ==
    current_time - self.last_send_time < self.rate_limit

\* track_compose_init, lines 80-83
UpdateTracking(self, telemetry_sent, pipeline_hash, current_time) ==
    [self EXCEPT
        !.sent_pipelines =
            IF telemetry_sent /\ pipeline_hash # ""
            THEN @ \cup {pipeline_hash} ELSE @,
        !.last_send_time = IF telemetry_sent THEN current_time ELSE @]

\* What a call of track_compose_init did: the object afterwards, why it
\* returned early if it did, what send_event did, the value of
\* telemetry_sent at line 80, and the exception that reached the caller
Tracked(self, skipped, sent, raised) ==
    [self |-> self, skipped |-> skipped, invoked |-> sent.invoked,
     requested |-> sent.requested, delivered |-> sent.delivered,
     telemetry_sent |->
        sent.invoked /\ sent.raised = NoErr /\ raised = NoErr,
     raised |-> raised]

\* TelemetryClient.track_compose_init(compose_data, telemetry), with
\* setting = settings.get("telemetry", True), current_time = time.time()
\* and what the network does
track_compose_init(self, compose_data, telemetry, setting, current_time, network) ==
    LET pipeline_hash == compose_data.pipeline_hash
        sent == GoogleAnalyticsBackend_send_event(compose_data.kind, network)
    IN  CASE OptedOut(self, telemetry, setting) ->
                Tracked(self, "opted out", NotSent, NoErr)
          [] AlreadySent(self, pipeline_hash) ->
                Tracked(self, "duplicate", NotSent, NoErr)
          [] TooSoon(self, current_time) ->
                Tracked(self, "rate limit", NotSent, NoErr)
          \* ComposeInitEvent(**compose_data), outside the try statement
          [] compose_data.kind = "unexpected_key" ->
                Tracked(self, "", NotSent, "TypeError")
          \* send_event raised something else than OSError or ValueError
          [] sent.raised = "TypeError" ->
                Tracked(self, "", sent, "TypeError")
          [] OTHER ->
                Tracked(UpdateTracking(self, sent.raised = NoErr,
                                       pipeline_hash, current_time),
                        "", sent, NoErr)

\* TelemetryClient.disable, enable, reset
TelemetryClient_disable(self) == [self EXCEPT !.enabled = FALSE]
TelemetryClient_enable(self) == [self EXCEPT !.enabled = TRUE]
TelemetryClient_reset(self) ==
    [self EXCEPT !.sent_pipelines = {}, !.last_send_time = 0]

\* TelemetryClient(): __new__ and then __init__ on the object it returned.
\* run holds the class attribute (instance), the objects, the number of
\* uuids drawn; ci is is_ci_environment() or is_pytest_running().
TelemetryClient(run, ci) ==
    LET cls == TelemetryClient_new(run)
        self == cls.objects[cls.instance]
    IN  [instance |-> cls.instance,
         objects |->
            [cls.objects EXCEPT
                ![cls.instance] =
                    TelemetryClient_init(self, ci, run.uuids + 1)],
         uuids |->
            IF TelemetryClient_init(self, ci, run.uuids + 1).backend
               = run.uuids + 1
            THEN run.uuids + 1 ELSE run.uuids,
         returned |-> cls.instance]

\* get_telemetry_client(): run.telemetry_client is the module's global
get_telemetry_client(run, ci) ==
    IF run.telemetry_client = NoObject
    THEN [telemetry_client |-> TelemetryClient(run, ci).returned]
         @@ TelemetryClient(run, ci)
    ELSE [telemetry_client |-> run.telemetry_client,
          instance |-> run.instance, objects |-> run.objects,
          uuids |-> run.uuids, returned |-> run.telemetry_client]

-----------------------------------------------------------------------------
(* SpecTelemetry: one process that constructs the client, tracks Compose   *)
(* initialisations, switches telemetry on and off, and whose clock runs    *)

\* time.time() advances by one of these between two calls
ClockSteps == {RateLimit \div 2, RateLimit}

\* The last call: its arguments and what it did
NoCall ==
    [op |-> "none", self |-> NoObject, pipeline_hash |-> "",
     kind |-> "plain", telemetry |-> TRUE, ci |-> FALSE, retry |-> FALSE, skipped |-> "", invoked |-> FALSE,
     requested |-> FALSE, delivered |-> FALSE, telemetry_sent |-> FALSE,
     raised |-> NoErr, returned |-> NoObject]

\* The class before the first TelemetryClient(): python started with the
\* global setting on or off, at a time of the epoch no less than rate_limit
InitTelemetry ==
    /\ \E setting \in BOOLEAN :
        telemetry_run =
            [instance |-> NoObject, objects |-> <<>>,
             telemetry_client |-> NoObject, uuids |-> 0,
             setting |-> setting, clock |-> RateLimit,
             call |-> NoCall,
             \* the events recorded as sent since the last reset, and the
             \* hashes the rate limit turned away that were not sent since
             recorded |-> <<>>, skipped |-> {}]
    /\ FourierUnused /\ AdaptUnused
    /\ adapter_run = NoValue /\ scaler_run = NoValue
    /\ histogram_run = NoValue /\ concurrent_run = NoValue
    /\ event_run = NoValue /\ racing_run = NoValue

TelemetryFrame ==
    /\ UNCHANGED <<fourier_vars, adapt_vars>>
    /\ UNCHANGED <<adapter_run, scaler_run, histogram_run, concurrent_run>>
    /\ UNCHANGED <<event_run, racing_run>>

\* The objects a caller can hold
Clients == {o \in 1..Len(telemetry_run.objects) :
                telemetry_run.objects[o].initialized}

\* client = TelemetryClient(), inside or outside CI/pytest
TelemetryConstruct ==
    /\ telemetry_run.uuids < MaxObjects
    /\ \E ci \in BOOLEAN :
        telemetry_run' =
            [call |-> [NoCall EXCEPT
                        !.op = "TelemetryClient", !.ci = ci,
                        !.returned =
                            TelemetryClient(telemetry_run, ci).returned]]
            @@ [f \in {"instance", "objects", "uuids"} |->
                    TelemetryClient(telemetry_run, ci)[f]]
            @@ telemetry_run
    /\ TelemetryFrame

\* client = get_telemetry_client()
TelemetryGet ==
    /\ telemetry_run.uuids < MaxObjects
    /\ \E ci \in BOOLEAN :
        telemetry_run' =
            [call |-> [NoCall EXCEPT
                        !.op = "get_telemetry_client", !.ci = ci,
                        !.returned =
                            get_telemetry_client(telemetry_run, ci).returned]]
            @@ [f \in {"instance", "objects", "uuids", "telemetry_client"}
                    |-> get_telemetry_client(telemetry_run, ci)[f]]
            @@ telemetry_run
    /\ TelemetryFrame

\* client.track_compose_init(compose_data, telemetry)
TelemetryTrack ==
    /\ \E o \in Clients, compose_data \in ComposeData,
          telemetry \in BOOLEAN, network \in Networks :
        LET pipeline_hash == compose_data.pipeline_hash
            done == track_compose_init(
                        telemetry_run.objects[o], compose_data, telemetry,
                        telemetry_run.setting, telemetry_run.clock, network)
        IN  telemetry_run' =
                [objects |-> [telemetry_run.objects EXCEPT ![o] = done.self],
                 call |->
                    [f \in {"skipped", "invoked", "requested", "delivered",
                            "telemetry_sent", "raised"} |-> done[f]]
                    @@ [NoCall EXCEPT
                            !.op = "track_compose_init", !.self = o,
                            !.pipeline_hash = pipeline_hash,
                            !.kind = compose_data.kind,
                            !.telemetry = telemetry,
                            \* the rate limit turned this pipeline away
                            \* before and it was not sent since
                            !.retry =
                                pipeline_hash \in telemetry_run.skipped],
                 recorded |->
                    IF done.telemetry_sent
                    THEN Append(telemetry_run.recorded,
                                [pipeline_hash |-> pipeline_hash,
                                 time |-> telemetry_run.clock])
                    ELSE telemetry_run.recorded,
                 skipped |->
                    CASE done.skipped = "rate limit" ->
                            telemetry_run.skipped \cup {pipeline_hash}
                      [] done.telemetry_sent ->
                            telemetry_run.skipped \ {pipeline_hash}
                      [] OTHER -> telemetry_run.skipped]
                @@ telemetry_run
    /\ TelemetryFrame

\* client.disable()
TelemetryDisable ==
    /\ \E o \in Clients :
        telemetry_run' =
            [objects |-> [telemetry_run.objects EXCEPT
                            ![o] = TelemetryClient_disable(@)],
             call |-> [NoCall EXCEPT !.op = "disable", !.self = o]]
            @@ telemetry_run
    /\ TelemetryFrame

\* client.enable()
TelemetryEnable ==
    /\ \E o \in Clients :
        telemetry_run' =
            [objects |-> [telemetry_run.objects EXCEPT
                            ![o] = TelemetryClient_enable(@)],
             call |-> [NoCall EXCEPT !.op = "enable", !.self = o]]
            @@ telemetry_run
    /\ TelemetryFrame

\* client.reset()
TelemetryReset ==
    /\ \E o \in Clients :
        telemetry_run' =
            [objects |-> [telemetry_run.objects EXCEPT
                            ![o] = TelemetryClient_reset(@)],
             call |-> [NoCall EXCEPT !.op = "reset", !.self = o],
             recorded |-> <<>>]
            @@ telemetry_run
    /\ TelemetryFrame

\* settings.update(telemetry=...)
TelemetrySetting ==
    /\ \E setting \in BOOLEAN :
        /\ setting # telemetry_run.setting
        /\ telemetry_run' =
            [setting |-> setting,
             call |-> [NoCall EXCEPT !.op = "settings.update"]]
            @@ telemetry_run
    /\ TelemetryFrame

\* Time passes
TelemetryTick ==
    /\ \E step \in ClockSteps :
        /\ telemetry_run.clock + step <= MaxClock
        /\ telemetry_run' =
            [clock |-> telemetry_run.clock + step,
             call |-> [NoCall EXCEPT !.op = "time passes"]]
            @@ telemetry_run
    /\ TelemetryFrame

NextTelemetry ==
    \/ TelemetryConstruct
    \/ TelemetryGet
    \/ TelemetryTrack
    \/ TelemetryDisable
    \/ TelemetryEnable
    \/ TelemetryReset
    \/ TelemetrySetting
    \/ TelemetryTick

SpecTelemetry == InitTelemetry /\ [][NextTelemetry]_vars

-----------------------------------------------------------------------------
(* Properties of the telemetry client                                      *)

\* The step is a call of track_compose_init on object o
TrackStep(o) ==
    /\ telemetry_run'.call.op = "track_compose_init"
    /\ telemetry_run'.call.self = o

\* The call of this step sent nothing and changed nothing of the client
NothingSent ==
    /\ ~telemetry_run'.call.invoked
    /\ telemetry_run'.call.raised = NoErr
    /\ telemetry_run'.objects = telemetry_run.objects
    /\ telemetry_run'.recorded = telemetry_run.recorded

\* C21: between two resets no non-empty pipeline hash is recorded as sent
\* twice, and a track_compose_init carrying a hash that is in sent_pipelines
\* returns without invoking send_event and without changing sent_pipelines
\* or last_send_time.
C21_RecordedHashNotSentAgain ==
    /\ [](\A i, j \in 1..Len(telemetry_run.recorded) :
            (/\ i < j
             /\ telemetry_run.recorded[i].pipeline_hash # "")
            => telemetry_run.recorded[i].pipeline_hash
               # telemetry_run.recorded[j].pipeline_hash)
    /\ [][\A o \in Clients :
            (/\ TrackStep(o)
             /\ telemetry_run'.call.pipeline_hash # ""
             /\ telemetry_run'.call.pipeline_hash
                    \in telemetry_run.objects[o].sent_pipelines)
            => NothingSent]_vars

\* A pipeline was sent, another one was sent later, and the first one,
\* tracked again, was turned away as a duplicate
C21_Witness ==
    /\ telemetry_run.call.op = "track_compose_init"
    /\ telemetry_run.call.skipped = "duplicate"
    /\ Len(telemetry_run.recorded) = 2
    /\ telemetry_run.recorded[1].pipeline_hash
            = telemetry_run.call.pipeline_hash

\* C22: with a clock that never runs backwards and no reset in between, any
\* two events recorded as sent are at least rate_limit = 30 seconds apart,
\* and a track_compose_init that comes less than 30 seconds after
\* last_send_time sends nothing and changes no state.
C22_SendsAtLeastRateLimitApart ==
    /\ [](\A i, j \in 1..Len(telemetry_run.recorded) :
            i < j => telemetry_run.recorded[j].time
                     - telemetry_run.recorded[i].time >= RateLimit)
    /\ [][\A o \in Clients :
            (/\ TrackStep(o)
             /\ telemetry_run.clock - telemetry_run.objects[o].last_send_time
                    < RateLimit)
            => NothingSent]_vars

\* Two events were sent and another pipeline, tracked less than 30 seconds
\* after the second one, was turned away by the rate limit
C22_Witness ==
    /\ telemetry_run.call.op = "track_compose_init"
    /\ telemetry_run.call.skipped = "rate limit"
    /\ Len(telemetry_run.recorded) = 2
    /\ \A i \in 1..2 : telemetry_run.recorded[i].pipeline_hash
                       # telemetry_run.call.pipeline_hash
    /\ telemetry_run.clock - telemetry_run.recorded[2].time < RateLimit

\* C23: when the delivery of the event fails inside send_event, the
\* pipeline hash is not added to sent_pipelines and last_send_time is not
\* advanced.
C23_FailedDeliveryNotRecorded ==
    [][\A o \in Clients :
        (/\ TrackStep(o)
         /\ telemetry_run'.call.invoked
         /\ ~telemetry_run'.call.delivered)
        => telemetry_run'.objects = telemetry_run.objects]_vars

\* C24: track_compose_init returns normally whatever building and sending
\* the event does.
C24_NoExceptionReachesCaller ==
    telemetry_run.call.raised = NoErr

\* C25: a track_compose_init on a disabled client, with telemetry = False,
\* or with the global setting off makes no backend call and leaves
\* sent_pipelines and last_send_time as they are; a client constructed in
\* CI or under pytest is disabled; enable() and disable() change neither
\* sent_pipelines nor last_send_time.
C25_OptOutIsAbsolute ==
    [][/\ \A o \in Clients :
            (/\ TrackStep(o)
             /\ \/ ~telemetry_run.objects[o].enabled
                \/ ~telemetry_run'.call.telemetry
                \/ ~telemetry_run.setting)
            => NothingSent
       /\ (/\ telemetry_run.objects = <<>>
           /\ telemetry_run'.objects # <<>>
           /\ telemetry_run'.call.ci)
          => ~telemetry_run'.objects[1].enabled
       /\ telemetry_run'.call.op \in {"enable", "disable"}
          => \A o \in Clients :
                /\ telemetry_run'.objects[o].sent_pipelines
                        = telemetry_run.objects[o].sent_pipelines
                /\ telemetry_run'.objects[o].last_send_time
                        = telemetry_run.objects[o].last_send_time]_vars

\* An enabled client with nothing sent yet and telemetry = True returned
\* early because the global setting is off
C25_Witness ==
    /\ telemetry_run.call.op = "track_compose_init"
    /\ telemetry_run.call.skipped = "opted out"
    /\ telemetry_run.call.telemetry
    /\ telemetry_run.objects[telemetry_run.call.self].enabled
    /\ ~telemetry_run.setting
    /\ telemetry_run.objects[telemetry_run.call.self].last_send_time = 0

\* C28: a track_compose_init turned away by the rate limit does not add its
\* hash to sent_pipelines, and when the same pipeline is tracked again at
\* least 30 seconds after the last send, with telemetry enabled and the
\* send succeeding, its event is sent then.
C28_RateLimitedPipelineSentLater ==
    /\ [](\A o \in Clients :
            telemetry_run.skipped
            \cap telemetry_run.objects[o].sent_pipelines = {})
    /\ [][\A o \in Clients :
            /\ (TrackStep(o) /\ telemetry_run'.call.skipped = "rate limit")
               => /\ NothingSent
                  /\ telemetry_run'.call.pipeline_hash
                        \in telemetry_run'.skipped
            /\ (/\ TrackStep(o)
                /\ telemetry_run'.call.pipeline_hash \in telemetry_run.skipped
                /\ telemetry_run.clock
                   - telemetry_run.objects[o].last_send_time >= RateLimit
                /\ telemetry_run.objects[o].enabled
                /\ telemetry_run'.call.telemetry
                /\ telemetry_run.setting
                /\ telemetry_run'.call.kind = "plain"
                /\ telemetry_run'.call.requested
                   => telemetry_run'.call.delivered)
               => /\ telemetry_run'.call.invoked
                  /\ telemetry_run'.call.delivered
                  /\ telemetry_run'.recorded
                     = Append(telemetry_run.recorded,
                              [pipeline_hash |->
                                    telemetry_run'.call.pipeline_hash,
                               time |-> telemetry_run.clock])]_vars

\* A pipeline with a hash was turned away by the rate limit and was sent
\* exactly 30 seconds after the send before it
C28_Witness ==
    /\ telemetry_run.call.op = "track_compose_init"
    /\ telemetry_run.call.delivered
    /\ telemetry_run.call.pipeline_hash # ""
    /\ telemetry_run.call.retry
    /\ telemetry_run.call.pipeline_hash \notin telemetry_run.skipped
    /\ Len(telemetry_run.recorded) = 2
    /\ telemetry_run.recorded[2].pipeline_hash
            = telemetry_run.call.pipeline_hash
    /\ telemetry_run.recorded[2].time
            = telemetry_run.recorded[1].time + RateLimit
    /\ telemetry_run.recorded[2].time = telemetry_run.clock

\* C29: every TelemetryClient() and every get_telemetry_client() returns
\* the one instance; constructing it again leaves enabled, sent_pipelines,
\* last_send_time and the backend's client_id as they are; only reset()
\* clears sent_pipelines and last_send_time.
C29_SingletonKeepsItsState ==
    /\ [](/\ Len(telemetry_run.objects) <= 1
          /\ telemetry_run.call.op
                \in {"TelemetryClient", "get_telemetry_client"}
             => /\ telemetry_run.call.returned = 1
                /\ telemetry_run.instance = telemetry_run.call.returned
          /\ telemetry_run.telemetry_client \in {NoObject, 1})
    /\ [][/\ (/\ telemetry_run'.call.op
                    \in {"TelemetryClient", "get_telemetry_client"}
              /\ telemetry_run.objects # <<>>)
             => telemetry_run'.objects = telemetry_run.objects
          /\ \A o \in Clients :
                (\/ ~(telemetry_run.objects[o].sent_pipelines
                        \subseteq telemetry_run'.objects[o].sent_pipelines)
                 \/ telemetry_run'.objects[o].last_send_time
                        < telemetry_run.objects[o].last_send_time)
                => telemetry_run'.call.op = "reset"]_vars

\* The client was constructed again after an event with a hash was sent and
\* after it was disabled in a process outside CI, all of which it kept
C29_Witness ==
    /\ telemetry_run.call.op = "TelemetryClient"
    /\ ~telemetry_run.call.ci
    /\ telemetry_run.telemetry_client = 1
    /\ telemetry_run.objects[1].sent_pipelines # {}
    /\ telemetry_run.objects[1].last_send_time > 0
    /\ ~telemetry_run.objects[1].enabled

-----------------------------------------------------------------------------
(* ComposeInitEvent (core/analytics/events.py)                              *)

\* A pipeline holds up to MaxTransforms transforms.
MaxTransforms == 15

\* "max 25 params" of GA4, the ten numbered transforms, and the length GA4
\* allows for a parameter value
MaxGa4Params == 25
MaxNumbered == 10
MaxValueLength == 100

\* Class names of transforms, in the order of python's str comparison
TransformNames ==
    <<"Blur", "ConstrainedCoarseDropout", "CropNonEmptyMaskIfExists",
      "Normalize", "PixelDistributionAdaptation", "RandomBrightnessContrast",
      "RandomResizedCrop", "ToTensorV2">>

\* The place of a name in the order of python's str comparison
NameRank(name) ==
    CHOOSE r \in 1..Len(TransformNames) : TransformNames[r] = name

\* sorted(names) for a list: the names by rank, each as often as it occurs
RECURSIVE SortedFrom(_, _)
SortedFrom(names, r) ==
    IF r > Len(TransformNames) THEN <<>>
    ELSE SelectSeq(names, LAMBDA t : t = TransformNames[r])
         \o SortedFrom(names, r + 1)
sorted(names) == SortedFrom(names, 1)

\* sorted(set(names))
RECURSIVE SortedSetFrom(_, _)
SortedSetFrom(names, r) ==
    IF r > Len(TransformNames) THEN <<>>
    ELSE (IF \E i \in 1..Len(names) : names[i] = TransformNames[r]
          THEN <<TransformNames[r]>> ELSE <<>>)
         \o SortedSetFrom(names, r + 1)
sorted_set(names) == SortedSetFrom(names, 1)

\* separator.join(strings)
RECURSIVE join(_, _)
join(separator, strings) ==
    IF strings = <<>> THEN ""
    ELSE IF Len(strings) = 1 THEN strings[1]
    ELSE strings[1] \o separator \o join(separator, Tail(strings))

\* string[:stop]
Prefix(string, stop) == SubSeq(string, 1, Min(stop, Len(string)))

\* json.dumps of a list of strings, the quotation marks written as '
json_dumps(strings) ==
    "[" \o join(", ", [i \in 1..Len(strings) |-> "'" \o strings[i] \o "'"])
    \o "]"

\* hashlib.sha256(text.encode()).hexdigest(): one digest for each text
sha256(text) == "sha256(" \o text \o ")"

\* ComposeInitEvent.generate_pipeline_hash(transforms)
generate_pipeline_hash_Unsorted(transforms) ==
    sha256(json_dumps(transforms))
generate_pipeline_hash(transforms) ==
    sha256(json_dumps(sorted(transforms)))

\* to_ga4_params, lines 68-69: the transforms that are not excluded
FilteredTransforms(transforms) ==
    SelectSeq(transforms, LAMBDA t : t \notin {"Normalize", "ToTensorV2"})

\* to_ga4_params, lines 72-79: the value of transform_types
transform_types(filtered_transforms) ==
    LET transform_list == join(",", sorted_set(filtered_transforms))
    IN  IF Len(transform_list) > MaxValueLength
        THEN Prefix(transform_list, 97) \o "..."
        ELSE transform_list

\* f"transform_{i}"
TransformKey(i) == "transform_" \o ToString(i)

\* to_ga4_params, lines 81-82: the numbered parameters
NumberedParams_Uncapped(filtered_transforms) ==
    [key \in {TransformKey(i) : i \in 1..Len(filtered_transforms)} |->
        filtered_transforms[
            CHOOSE i \in 1..Len(filtered_transforms) : TransformKey(i) = key]]
NumberedParams(filtered_transforms) ==
    LET first == Prefix(filtered_transforms, MaxNumbered)
    IN  [key \in {TransformKey(i) : i \in 1..Len(first)} |->
            first[CHOOSE i \in 1..Len(first) : TransformKey(i) = key]]

\* round(x, 1) of a number that is not half-way between two tenths
round1(x) == Rat(RRint(RMul(x, RInt(10))), 10)

\* ComposeInitEvent.to_ga4_params(self): the dictionary as a function of
\* its keys
to_ga4_params(self) ==
    LET filtered_transforms == FilteredTransforms(self.transforms)
    IN  NumberedParams(filtered_transforms)
        @@ (IF sorted_set(filtered_transforms) # <<>>
            THEN [transform_types |-> transform_types(filtered_transforms)]
            ELSE <<>>)
        @@ (IF self.ram_gb # None
            THEN [ram_gb |-> round1(self.ram_gb)] ELSE <<>>)
        @@ (IF self.gpu # "" THEN [gpu |-> self.gpu] ELSE <<>>)
        @@ [pipeline_hash |-> Prefix(self.pipeline_hash, 32),
            version |-> self.albumentationsx_version,
            python_version |-> self.python_version,
            os |-> self.os,
            cpu |-> self.cpu,
            environment |-> self.environment,
            targets |-> self.targets,
            num_transforms |-> Len(self.transforms)]

-----------------------------------------------------------------------------
(* SpecEvent: one ComposeInitEvent built from what collect_pipeline_info   *)
(* and get_environment_info return, and the calls of its methods           *)

\* The list of n names that starts at the start-th of TransformNames and
\* goes on by step, around the end
NameCycle(start, step, n) ==
    [i \in 1..n |->
        TransformNames[((start - 1 + (i - 1) * step) % Len(TransformNames)) + 1]]

\* compose_data["transforms"]: the class names of a pipeline, in its order
TransformLists ==
    {NameCycle(start, step, n) :
        start \in 1..Len(TransformNames), step \in {1, 3},
        n \in 0..MaxTransforms}

Reversed(names) == [i \in 1..Len(names) |-> names[Len(names) + 1 - i]]

\* Pipelines to compare a pipeline with: itself, the same transforms in
\* reverse order and with the first one moved to the end, and one with
\* another last transform
OtherPipelines(names) ==
    {names, Reversed(names)}
    \cup (IF names = <<>> THEN {}
          ELSE {Append(Tail(names), names[1]),
                Append(SubSeq(names, 1, Len(names) - 1), "Blur")})

\* gpu: "" for no gpu (None or an empty name). ram_gb: None or gigabytes.
Gpus == {"", "Tesla T4"}
RamSizes == {None, Rat(1564, 100)}

\* ComposeInitEvent(**compose_data) with the pipeline_hash, transforms and
\* targets of collect_pipeline_info(compose)
ComposeInitEvent(transforms, gpu, ram_gb) ==
    [event_type |-> "compose_init",
     pipeline_hash |-> generate_pipeline_hash(transforms),
     albumentationsx_version |-> "2.0.9",
     python_version |-> "3.12",
     os |-> "Ubuntu 24.04",
     cpu |-> "x86_64",
     gpu |-> gpu,
     ram_gb |-> ram_gb,
     environment |-> "local",
     transforms |-> transforms,
     targets |-> "None"]

InitEvent ==
    /\ \E transforms \in TransformLists, gpu \in Gpus, ram_gb \in RamSizes :
        \E other \in OtherPipelines(transforms) :
            event_run =
                [self |-> ComposeInitEvent(transforms, gpu, ram_gb),
                 other |-> other,
                 converted |-> FALSE, params |-> <<>>,
                 hashed |-> FALSE, hash |-> "", other_hash |-> ""]
    /\ FourierUnused /\ AdaptUnused
    /\ adapter_run = NoValue /\ scaler_run = NoValue
    /\ histogram_run = NoValue /\ concurrent_run = NoValue
    /\ telemetry_run = NoValue /\ racing_run = NoValue

EventFrame ==
    /\ UNCHANGED <<fourier_vars, adapt_vars>>
    /\ UNCHANGED <<adapter_run, scaler_run, histogram_run, concurrent_run>>
    /\ UNCHANGED <<telemetry_run, racing_run>>

\* params = event.to_ga4_params()
ToGa4Params ==
    /\ ~event_run.converted
    /\ event_run' =
        [event_run EXCEPT
            !.converted = TRUE, !.params = to_ga4_params(event_run.self)]
    /\ EventFrame

\* ComposeInitEvent.generate_pipeline_hash of the pipeline and of the other
GeneratePipelineHash ==
    /\ ~event_run.hashed
    /\ event_run' =
        [event_run EXCEPT
            !.hashed = TRUE,
            !.hash = generate_pipeline_hash(event_run.self.transforms),
            !.other_hash = generate_pipeline_hash(event_run.other)]
    /\ EventFrame

NextEvent ==
    \/ ToGa4Params
    \/ GeneratePipelineHash

SpecEvent == InitEvent /\ [][NextEvent]_vars

-----------------------------------------------------------------------------
(* Properties of the event                                                 *)

\* The transforms of the event without Normalize and ToTensorV2
Counted == FilteredTransforms(event_run.self.transforms)

Occurrences(names, name) ==
    Cardinality({i \in 1..Len(names) : names[i] = name})
SameMultiset(a, b) ==
    \A r \in 1..Len(TransformNames) :
        Occurrences(a, TransformNames[r]) = Occurrences(b, TransformNames[r])

\* C27: two lists of transform names that are permutations of each other
\* get the same hash, so a client that sent the one treats the other as
\* already sent; the hash is that of the event built from the list.
C27_HashIgnoresOrder ==
    (event_run.hashed /\ SameMultiset(event_run.self.transforms,
                                      event_run.other))
    => /\ event_run.hash = event_run.other_hash
       /\ event_run.hash = event_run.self.pipeline_hash
       /\ AlreadySent([sent_pipelines |-> {event_run.hash}],
                      event_run.other_hash)

\* Two different orders of the same transforms, hashed
C27_Witness ==
    /\ event_run.hashed
    /\ event_run.other # event_run.self.transforms
    /\ SameMultiset(event_run.self.transforms, event_run.other)
    /\ Len(event_run.other) > 2
    /\ event_run.other[1] # event_run.self.transforms[1]

-----------------------------------------------------------------------------
(* SpecRacing: the threads of one process inside track_compose_init of the *)
(* shared, enabled TelemetryClient; every send succeeds                     *)

\* The client after TelemetryClient() outside CI, two idle threads
InitRacing ==
    /\ racing_run =
        [self |-> TelemetryClient_init(NewTelemetryClient, FALSE, 1),
         clock |-> RateLimit,
         pc |-> [t \in Threads |-> "idle"],
         pipeline_hash |-> [t \in Threads |-> ""],
         current_time |-> [t \in Threads |-> 0],
         \* the events send_event delivered, with the time of the send
         sends |-> <<>>]
    /\ FourierUnused /\ AdaptUnused
    /\ adapter_run = NoValue /\ scaler_run = NoValue
    /\ histogram_run = NoValue /\ concurrent_run = NoValue
    /\ telemetry_run = NoValue /\ event_run = NoValue

RacingFrame ==
    /\ UNCHANGED <<fourier_vars, adapt_vars>>
    /\ UNCHANGED <<adapter_run, scaler_run, histogram_run, concurrent_run>>
    /\ UNCHANGED <<telemetry_run, event_run>>

\* Lines 49-64: thread t enters with a pipeline hash, reads enabled, the
\* setting, sent_pipelines, the time and last_send_time, and returns early
\* or goes on to the send
RacingCheck(t) ==
    /\ racing_run.pc[t] = "idle"
    /\ \E pipeline_hash \in PipelineHashes :
        racing_run' =
            IF \/ OptedOut(racing_run.self, TRUE, TRUE)
               \/ AlreadySent(racing_run.self, pipeline_hash)
               \/ TooSoon(racing_run.self, racing_run.clock)
            THEN racing_run
            ELSE [racing_run EXCEPT
                    !.pipeline_hash[t] = pipeline_hash,
                    !.current_time[t] = racing_run.clock,
                    !.pc[t] = "send"]
    /\ RacingFrame

\* Lines 67-77: thread t builds the event and send_event delivers it
RacingSend(t) ==
    /\ racing_run.pc[t] = "send"
    /\ racing_run' =
        [racing_run EXCEPT
            !.sends = Append(@, [pipeline_hash |-> racing_run.pipeline_hash[t],
                                 time |-> racing_run.clock]),
            !.pc[t] = "update"]
    /\ RacingFrame

\* Lines 80-83: thread t updates the tracking and returns
RacingUpdate(t) ==
    /\ racing_run.pc[t] = "update"
    /\ racing_run' =
        [racing_run EXCEPT
            !.self = UpdateTracking(@, TRUE, racing_run.pipeline_hash[t],
                                    racing_run.current_time[t]),
            !.pipeline_hash[t] = "",
            !.current_time[t] = 0,
            !.pc[t] = "idle"]
    /\ RacingFrame

\* Time passes
RacingTick ==
    /\ \E step \in ClockSteps :
        /\ racing_run.clock + step <= MaxClock
        /\ racing_run' = [racing_run EXCEPT !.clock = @ + step]
    /\ RacingFrame

NextRacing ==
    \/ \E t \in Threads : RacingCheck(t)
    \/ \E t \in Threads : RacingSend(t)
    \/ \E t \in Threads : RacingUpdate(t)
    \/ RacingTick

SpecRacing == InitRacing /\ [][NextRacing]_vars

\* C30: with several threads inside track_compose_init at once, at most one
\* event is sent for each pipeline hash and no two events are sent less than
\* 30 seconds apart.
C30_DeduplicatedAndRateLimitedUnderThreads ==
    \A i, j \in 1..Len(racing_run.sends) :
        i < j
        => /\ racing_run.sends[i].pipeline_hash # ""
              => racing_run.sends[i].pipeline_hash
                 # racing_run.sends[j].pipeline_hash
           /\ racing_run.sends[j].time - racing_run.sends[i].time
              >= RateLimit

=============================================================================
